---- MODULE Spec2Model ----
(***************************************************************************)
(* HPone: manifest-to-deployment pipeline.                                 *)
(*                                                                         *)
(* The module holds one specification per component:                       *)
(*   SpecFs      remove_honeypot_data over a small filesystem              *)
(*   SpecRun     run_with_ephemeral_logs (subprocess, terminal, summary)   *)
(*   SpecRewrite rewrite_compose_with_env on compose documents             *)
(*   SpecCmd     import_honeypot and the batch commands of main            *)
(*   SpecEnv     generate_env_file writing the .env of a working directory *)
(*   SpecCompose run_compose_action launching docker compose               *)
(* Each specification moves its own variables and leaves the others at     *)
(* their idle values.                                                      *)
(***************************************************************************)
EXTENDS Integers, Sequences, FiniteSets, TLC

VARIABLES
    \* ---- SafeDataRemover (scripts/file_ops.py)
    fs,          \* the filesystem: path -> node
    fsBefore,    \* the filesystem when remove_honeypot_data was called
    rmPc,        \* "idle" | "done"
    rmId,        \* the identifier passed, as its "/"-separated segments
    rmResult,    \* the value returned
    \* ---- EphemeralProcessRunner (core/log_runner.py)
    runPc,       \* "idle" | "launch" | "reading" | "waiting" | "returned"
    runIn,       \* the arguments: [cmd, action, timeout, on_log_line]
    proc,        \* the subprocess: "none" | "running" | "exited" | "killed"
    procCode,    \* its exit code once exited
    stdoutOpen,  \* the subprocess still holds its end of the pipe
    pipe,        \* lines written by the subprocess and not yet read
    emitted,     \* number of lines the subprocess has written
    clock,       \* seconds since the call
    overran,     \* the subprocess was seen running at or after the timeout
    log_lines,   \* the in-memory buffer of displayed lines
    term,        \* the terminal: [screen |-> rows, cursor |-> row index]
    printed,     \* number of log lines printed
    erased,      \* number of log rows cleared from the terminal
    popenCalls,  \* number of subprocess.Popen calls
    runResult,   \* [success, outcome, duration] once returned
    \* ---- ComposeRewriter (core/config.py)
    rwFile,      \* what docker-compose.yml holds
    rwPrev,      \* what it held before the latest rewrite
    rwOrig,      \* what it held before the first rewrite
    rwCfg,       \* the manifest
    rwName,      \* the resolved honeypot name
    rwCount,     \* number of rewrites applied
    \* ---- import_honeypot and the commands of main (app.py, scripts/)
    manifests,   \* honeypots/<id>.yml: id -> manifest, or NoManifest
    templates,   \* ids with a directory template/docker/<id>/
    work,        \* docker/<id>/: id -> [exists, files]
    hostDirs,    \* host directories of volumes that exist
    running,     \* ids whose containers are up
    cmdPc,       \* "idle" | "done"
    cmdIn,       \* the command and its flags
    cmdLog,      \* the calls the command made: <<operation, id, outcome>>
    cmdExit,     \* the exit code of the command
    workBefore,  \* work when the command started
    hostBefore,  \* hostDirs when the command started
    \* ---- EnvFileGenerator (core/config.py)
    envFile,     \* the text of .env, or NoEnvFile
    envPrev,     \* what .env held before the latest call
    envCfg,      \* the manifest
    envName,     \* the resolved honeypot name
    envCount,    \* number of calls of generate_env_file
    envRaised,   \* the latest call raised
    \* ---- run_compose_action (core/docker.py)
    cpPc,        \* "idle" | "start" | "primary" | "legacy" | "done"
    cpIn,        \* the arguments and the state of the host
    cpCalls,     \* the command lines it tried to launch, in order
    cpOutcome,   \* "none" | "returned" | the exception raised
    \* ---- FieldParser and to_var_prefix called on their own
    prPc,        \* "idle" | "done"
    prCfg,       \* the manifest passed to the parsers
    prName,      \* the name passed to to_var_prefix
    prOut        \* the function called and what it returned or raised

fsVars == <<fs, fsBefore, rmPc, rmId, rmResult>>

runVars == <<runPc, runIn, proc, procCode, stdoutOpen, pipe, emitted, clock,
             overran, log_lines, term, printed, erased, popenCalls, runResult>>

rwVars == <<rwFile, rwPrev, rwOrig, rwCfg, rwName, rwCount>>

cmdVars == <<manifests, templates, work, hostDirs, running, cmdPc, cmdIn, cmdLog,
             cmdExit, workBefore, hostBefore>>

envVars == <<envFile, envPrev, envCfg, envName, envCount, envRaised>>

cpVars == <<cpPc, cpIn, cpCalls, cpOutcome>>

prVars == <<prPc, prCfg, prName, prOut>>

vars == <<fsVars, runVars, rwVars, cmdVars, envVars, cpVars, prVars>>

notFsVars == <<runVars, rwVars, cmdVars, envVars, cpVars, prVars>>

notRunVars == <<fsVars, rwVars, cmdVars, envVars, cpVars, prVars>>

notRwVars == <<fsVars, runVars, cmdVars, envVars, cpVars, prVars>>

notEnvVars == <<fsVars, runVars, rwVars, cmdVars, cpVars, prVars>>

notCpVars == <<fsVars, runVars, rwVars, cmdVars, envVars, prVars>>

notPrVars == <<fsVars, runVars, rwVars, cmdVars, envVars, cpVars>>

(***************************************************************************)
(* Idle values: what a component's variables hold while another           *)
(* component's specification runs.                                         *)
(***************************************************************************)
NoInput == [cmd |-> <<>>, action |-> "None", timeout |-> <<>>, on_log_line |-> "None"]

NoResult == [success |-> FALSE, outcome |-> "none", duration |-> 0]

FsIdle ==
    /\ fs = <<>> /\ fsBefore = <<>> /\ rmPc = "idle" /\ rmId = <<"">>
    /\ rmResult = FALSE

RunIdle ==
    /\ runPc = "idle" /\ runIn = NoInput /\ proc = "none" /\ procCode = 0
    /\ stdoutOpen = FALSE /\ pipe = <<>> /\ emitted = 0 /\ clock = 0
    /\ overran = FALSE /\ log_lines = <<>>
    /\ term = [screen |-> << <<"prior">> >>, cursor |-> 2]
    /\ printed = 0 /\ erased = 0 /\ popenCalls = 0 /\ runResult = NoResult

RwIdle ==
    /\ rwFile = 0 /\ rwPrev = 0 /\ rwOrig = 0 /\ rwCfg = 0 /\ rwName = <<>>
    /\ rwCount = 0

NoCommand == [name |-> "none"]

EnvIdle ==
    /\ envFile = <<>> /\ envPrev = <<>> /\ envCfg = 0 /\ envName = <<>>
    /\ envCount = 0 /\ envRaised = FALSE

CpIdle == cpPc = "idle" /\ cpIn = <<>> /\ cpCalls = <<>> /\ cpOutcome = "none"

PrIdle == prPc = "idle" /\ prCfg = <<>> /\ prName = <<>> /\ prOut = <<>>

CmdIdle ==
    /\ manifests = <<>> /\ templates = {} /\ work = <<>> /\ hostDirs = {}
    /\ running = {} /\ cmdPc = "idle" /\ cmdIn = NoCommand /\ cmdLog = <<>>
    /\ cmdExit = 0 /\ workBefore = <<>> /\ hostBefore = {}

(***************************************************************************)
(* Generic helpers                                                         *)
(***************************************************************************)
Front(s) == SubSeq(s, 1, Len(s) - 1)

\* Body applied to the value of x
With(x, Body(_)) == CHOOSE y \in {Body(v) : v \in {x}} : TRUE

IsPrefix(p, q) == Len(p) <= Len(q) /\ SubSeq(q, 1, Len(p)) = p

RECURSIVE SelectNot(_, _)
\* s without its elements that lie in drop
SelectNot(s, drop) ==
    IF s = <<>> THEN <<>>
    ELSE IF Head(s) \in drop THEN SelectNot(Tail(s), drop)
         ELSE <<Head(s)>> \o SelectNot(Tail(s), drop)

(***************************************************************************)
(* Filesystem and pathlib                                                  *)
(*                                                                         *)
(* A string is held as the sequence of its "/"-separated segments          *)
(* ("" is <<"">>, "a/b" is <<"a","b">>, "/d" is <<"","d">>, "a/" is        *)
(* <<"a","">>).  A pathlib path is [root, parts]: root is "" (relative),  *)
(* "/" or "//" (POSIX keeps exactly two leading slashes).                  *)
(***************************************************************************)
MaxIdSegs == 3

Segs == {"", ".", "..", "a", "b", "d"}

IdStrings == UNION {[1..k -> Segs] : k \in 1..MaxIdSegs}

\* DATA_DIR = PROJECT_ROOT / "data"; the project root is taken as "/".
DATA_DIR == [root |-> "/", parts |-> <<"d">>]

Node(k, t) == [kind |-> k, to |-> t]

FsPaths == {<<"d">>, <<"d", "a">>, <<"d", "b">>, <<"d", "b", "a">>, <<"o">>}

Kind(f, p) ==
    IF p = <<>> THEN "dir"
    ELSE IF p \in DOMAIN f THEN f[p].kind ELSE "none"

\* pathlib's parsing of a string: "" and "." segments vanish, ".." stays.
ParsePath(segs) ==
    LET n == Len(segs)
        rt == IF n >= 2 /\ segs[1] = ""
              THEN IF n >= 3 /\ segs[2] = "" /\ ~(n >= 4 /\ segs[3] = "")
                   THEN "//" ELSE "/"
              ELSE ""
    IN [root |-> rt, parts |-> SelectNot(segs, {"", "."})]

\* pathlib's "/" operator: an absolute right operand replaces the left one.
JoinPath(base, segs) ==
    LET q == ParsePath(segs)
    IN IF q.root # "" THEN q
       ELSE [root |-> base.root, parts |-> base.parts \o q.parts]

RECURSIVE RealParts(_, _, _)
\* os.path.realpath (non-strict): ".." pops, a symlink is replaced by its
\* target, a missing component is appended as it is.
RealParts(f, cur, rest) ==
    IF rest = <<>> THEN cur
    ELSE LET c == Head(rest) IN
         IF c = ".." THEN RealParts(f, Front(cur), Tail(rest))
         ELSE LET nxt == Append(cur, c) IN
              IF Kind(f, nxt) = "link"
              THEN RealParts(f, RealParts(f, <<>>, f[nxt].to), Tail(rest))
              ELSE RealParts(f, nxt, Tail(rest))

\* Path.resolve()
Resolve(f, p) == [root |-> "/", parts |-> RealParts(f, <<>>, p.parts)]

RECURSIVE WalkOk(_, _, _)
\* os.stat: every component must exist, and every one but the last must be
\* a directory (or a symlink to one).  Yields the node reached, or <<"!">>.
WalkOk(f, cur, rest) ==
    IF Kind(f, cur) = "none" THEN <<"!">>
    ELSE IF rest = <<>> THEN cur
    ELSE IF Kind(f, cur) # "dir" THEN <<"!">>
    ELSE LET c == Head(rest) IN
         IF c = ".." THEN WalkOk(f, Front(cur), Tail(rest))
         ELSE LET nxt == Append(cur, c) IN
              IF Kind(f, nxt) = "link"
              THEN WalkOk(f, WalkOk(f, <<>>, f[nxt].to), Tail(rest))
              ELSE WalkOk(f, nxt, Tail(rest))

\* Path.exists() and Path.is_dir(), both following symlinks
Exists(f, p) == WalkOk(f, <<>>, p.parts) # <<"!">>

IsDir(f, p) == Exists(f, p) /\ Kind(f, WalkOk(f, <<>>, p.parts)) = "dir"

\* PurePath.relative_to succeeds: other is a prefix of p (or equal to it)
RelativeTo(p, other) == p.root = other.root /\ IsPrefix(other.parts, p.parts)

\* shutil.rmtree: the directory and everything below it
RmTree(f, p) ==
    [q \in DOMAIN f |-> IF IsPrefix(p.parts, q) THEN Node("none", <<>>) ELSE f[q]]

\* the paths of f that are no longer there in g
Removed(f, g) == {q \in DOMAIN f : Kind(f, q) # "none" /\ Kind(g, q) = "none"}

(***************************************************************************)
(* remove_honeypot_data: [ok |-> returned value, fs |-> filesystem after]  *)
(***************************************************************************)
\* a remover that deletes the resolved target before its last check
remove_honeypot_data_late_check(f, honeypot_id) ==
    LET base == Resolve(f, DATA_DIR)
        target == JoinPath(DATA_DIR, honeypot_id)
        target_resolved == Resolve(f, target)
    IN IF ~Exists(f, target) \/ ~IsDir(f, target)
       THEN [ok |-> FALSE, fs |-> f]
       ELSE IF ~RelativeTo(target_resolved, base)
       THEN [ok |-> FALSE, fs |-> f]
       ELSE [ok |-> target_resolved = JoinPath(base, honeypot_id),
             fs |-> RmTree(f, target_resolved)]

remove_honeypot_data(f, honeypot_id) ==
    LET base == Resolve(f, DATA_DIR)
        target == JoinPath(DATA_DIR, honeypot_id)
        target_resolved == Resolve(f, target)
    IN IF ~Exists(f, target) \/ ~IsDir(f, target)
       THEN [ok |-> FALSE, fs |-> f]
       ELSE IF ~RelativeTo(target_resolved, base)
       THEN [ok |-> FALSE, fs |-> f]
       ELSE IF target_resolved # JoinPath(base, honeypot_id)
       THEN [ok |-> FALSE, fs |-> f]
       ELSE [ok |-> TRUE, fs |-> RmTree(f, target_resolved)]

\* The filesystems the remover can meet: DATA_DIR with children a and b, a
\* nested b/a, a directory /o outside, and a being a file or a symlink.
InitialFs ==
    {f \in [FsPaths -> {Node("none", <<>>), Node("dir", <<>>), Node("file", <<>>),
                        Node("link", <<"o">>), Node("link", <<"d">>),
                        Node("link", <<"d", "b">>), Node("link", <<"d", "b", "a">>)}] :
        /\ f[<<"o">>].kind = "dir"
        /\ f[<<"d">>].kind \in {"dir", "none"}
        /\ f[<<"d", "b">>].kind \in {"dir", "none"}
        /\ f[<<"d", "b", "a">>].kind \in {"dir", "none"}
        /\ f[<<"d">>].kind = "none" =>
              f[<<"d", "a">>].kind = "none" /\ f[<<"d", "b">>].kind = "none"
        /\ f[<<"d", "b">>].kind = "none" => f[<<"d", "b", "a">>].kind = "none"}

InitFs ==
    /\ fs \in InitialFs
    /\ fsBefore = fs
    /\ rmPc = "idle"
    /\ rmId = <<"">>
    /\ rmResult = FALSE
    /\ RunIdle /\ RwIdle /\ CmdIdle /\ EnvIdle /\ CpIdle /\ PrIdle

RemoveHoneypotData(id) ==
    /\ rmPc = "idle"
    /\ LET r == remove_honeypot_data(fs, id) IN
         /\ fs' = r.fs
         /\ rmResult' = r.ok
    /\ fsBefore' = fs
    /\ rmId' = id
    /\ rmPc' = "done"
    /\ UNCHANGED notFsVars

NextFs == \E id \in IdStrings : RemoveHoneypotData(id)

SpecFs == InitFs /\ [][NextFs]_vars

\* C1: remove_honeypot_data never deletes DATA_DIR itself nor any path that
\* does not lie strictly under the resolved DATA_DIR, whatever the identifier
\* and the filesystem.
C1_NeverDeletesRootOrOutside ==
    rmPc = "done" =>
        \A q \in Removed(fsBefore, fs) :
            LET base == Resolve(fsBefore, DATA_DIR).parts
            IN IsPrefix(base, q) /\ q # base

\* the target of the call, and the canonical paths of target and DATA_DIR
RmTarget == JoinPath(DATA_DIR, rmId)

RmResolved == Resolve(fsBefore, RmTarget)

RmBase == Resolve(fsBefore, DATA_DIR)

\* one of the four reasons to refuse holds
RmRefuses ==
    \/ ~Exists(fsBefore, RmTarget)
    \/ ~IsDir(fsBefore, RmTarget)
    \/ ~IsPrefix(RmBase.parts, RmResolved.parts)
    \/ RmResolved # JoinPath(RmBase, rmId)

\* C19: when the target does not exist, is not a directory, does not lie
\* under DATA_DIR or has a canonical path other than DATA_DIR/<id>, the
\* call returns False and the filesystem is as before; when it returns True
\* the canonical target was a directory and it and everything below it is
\* gone, and nothing else.
C19_RefusalChangesNothing ==
    rmPc = "done" =>
        /\ RmRefuses => (rmResult = FALSE /\ fs = fsBefore)
        /\ rmResult = FALSE => fs = fsBefore
        /\ rmResult = TRUE =>
              /\ Kind(fsBefore, RmResolved.parts) = "dir"
              /\ \A q \in DOMAIN fs :
                    fs[q] = IF IsPrefix(RmResolved.parts, q) THEN Node("none", <<>>)
                            ELSE fsBefore[q]

\* a refusal by the last check: the target is a directory under DATA_DIR
\* whose canonical path is not DATA_DIR/<id>
C19_Witness ==
    /\ rmPc = "done" /\ rmResult = FALSE
    /\ IsDir(fsBefore, RmTarget)
    /\ IsPrefix(RmBase.parts, RmResolved.parts)
    /\ RmResolved # JoinPath(RmBase, rmId)
    /\ fs = fsBefore

\* C20: every directory the call deletes is an immediate child of DATA_DIR:
\* when it returns True, the canonical target is exactly one component
\* below the canonical DATA_DIR.
C20_DeletesOnlyImmediateChildren ==
    (rmPc = "done" /\ rmResult = TRUE) =>
        /\ IsPrefix(RmBase.parts, RmResolved.parts)
        /\ Len(RmResolved.parts) = Len(RmBase.parts) + 1

(***************************************************************************)
(* YAML data and strings.                                                  *)
(*                                                                         *)
(* A Python str is the sequence of its characters.  A YAML value is a      *)
(* record [ytag, yval]: the Python type and the payload.  A dict whose keys  *)
(* the code reads by name (a manifest, a port entry, a compose service) is *)
(* a record with one field per key, Absent standing for a missing key; a   *)
(* dict the code iterates (env, environment, services) is the sequence of  *)
(* its <<key, value>> items in insertion order.                            *)
(***************************************************************************)
Null == [ytag |-> "null", yval |-> 0]

Absent == [ytag |-> "absent", yval |-> 0]

StrV(chars) == [ytag |-> "str", yval |-> chars]

IntV(n) == [ytag |-> "int", yval |-> n]

BoolV(b) == [ytag |-> "bool", yval |-> b]

ListV(items) == [ytag |-> "list", yval |-> items]

DictV(items) == [ytag |-> "dict", yval |-> items]

\* dict.get(key): a missing key reads as None
Get(x) == IF x.ytag = "absent" THEN Null ELSE x

\* bool(x)
Truthy(x) ==
    CASE x.ytag = "null" -> FALSE
      [] x.ytag = "absent" -> FALSE
      [] x.ytag = "str" -> x.yval # <<>>
      [] x.ytag = "int" -> x.yval # 0
      [] x.ytag = "bool" -> x.yval
      [] x.ytag = "list" -> x.yval # <<>>
      [] x.ytag = "dict" -> x.yval # <<>>
      [] OTHER -> TRUE

\* a or b
Or(a, b) == IF Truthy(a) THEN a ELSE b

LowerCase ==
    <<"a", "b", "c", "d", "e", "f", "g", "h", "i", "j", "k", "l", "m",
      "n", "o", "p", "q", "r", "s", "t", "u", "v", "w", "x", "y", "z">>

UpperCase ==
    <<"A", "B", "C", "D", "E", "F", "G", "H", "I", "J", "K", "L", "M",
      "N", "O", "P", "Q", "R", "S", "T", "U", "V", "W", "X", "Y", "Z">>

DigitChars == <<"0", "1", "2", "3", "4", "5", "6", "7", "8", "9">>

Range(f) == {f[i] : i \in DOMAIN f}

UpperChar(c) ==
    IF c \in Range(LowerCase)
    THEN UpperCase[CHOOSE i \in 1..26 : LowerCase[i] = c]
    ELSE c

\* str.upper()
Upper(str) == [i \in 1..Len(str) |-> UpperChar(str[i])]

Whitespace == {" ", "\t", "\n"}

RECURSIVE LStrip(_, _)
\* str.lstrip(chars)
LStrip(str, chars) ==
    IF str # <<>> /\ Head(str) \in chars THEN LStrip(Tail(str), chars) ELSE str

RECURSIVE RStrip(_, _)
\* str.rstrip(chars)
RStrip(str, chars) ==
    IF str # <<>> /\ str[Len(str)] \in chars THEN RStrip(Front(str), chars) ELSE str

\* str.strip(chars)
StripChars(str, chars) == RStrip(LStrip(str, chars), chars)

\* str.strip()
StripWs(str) == StripChars(str, Whitespace)

\* c in str
HasChar(str, c) == \E i \in 1..Len(str) : str[i] = c

\* str.split(c, 1), for a str that contains c
SplitFirst(str, c) ==
    LET i == CHOOSE j \in 1..Len(str) :
                 str[j] = c /\ \A k \in 1..(j - 1) : str[k] # c
    IN <<SubSeq(str, 1, i - 1), SubSeq(str, i + 1, Len(str))>>

RECURSIVE SubNonAlnum(_, _)
\* re.sub(r"[^A-Z0-9]+", "_", str); inRun: the previous character was
\* part of a run already replaced
SubNonAlnum(str, inRun) ==
    IF str = <<>> THEN <<>>
    ELSE IF Head(str) \in Range(UpperCase) \cup Range(DigitChars)
         THEN <<Head(str)>> \o SubNonAlnum(Tail(str), FALSE)
         ELSE IF inRun THEN SubNonAlnum(Tail(str), TRUE)
              ELSE <<"_">> \o SubNonAlnum(Tail(str), TRUE)

\* re.sub(r"[^A-Z0-9]+", "_", str(k).upper()).strip("_")
SanitizeKey(str) == StripChars(SubNonAlnum(Upper(str), FALSE), {"_"})

\* upper = tool_name.strip().upper(); re.sub(...).strip("_")
to_var_prefix(tool_name) ==
    StripChars(SubNonAlnum(Upper(StripWs(tool_name)), FALSE), {"_"})

RECURSIVE Digits(_)
\* str(n) for n >= 0
Digits(n) ==
    IF n < 10 THEN <<DigitChars[n + 1]>>
    ELSE Digits(n \div 10) \o <<DigitChars[(n % 10) + 1]>>

\* str(x) of a scalar
ToStr(x) ==
    CASE x.ytag = "str" -> x.yval
      [] x.ytag = "int" -> Digits(x.yval)
      [] x.ytag = "bool" -> IF x.yval THEN <<"T", "r", "u", "e">> ELSE <<"F", "a", "l", "s", "e">>
      [] OTHER -> <<"N", "o", "n", "e">>

\* the items of a dict, as a set of <<key, value>>
Items(d) == Range(d)

Keys(d) == {d[i][1] : i \in DOMAIN d}

HasKey(d, k) == k \in Keys(d)

\* d[k], for a key of d
Lookup(d, k) == d[CHOOSE i \in DOMAIN d : d[i][1] = k][2]

\* d[k] = x: an existing key keeps its position, a new key goes last
Put(d, k, x) ==
    IF HasKey(d, k)
    THEN [i \in DOMAIN d |-> IF d[i][1] = k THEN <<k, x>> ELSE d[i]]
    ELSE Append(d, <<k, x>>)

RECURSIVE Update(_, _)
\* for k, v in e.items(): d[k] = v
Update(d, e) == IF e = <<>> THEN d ELSE Update(Put(d, Head(e)[1], Head(e)[2]), Tail(e))


(***************************************************************************)
(* FieldParser and ComposeRewriter: core/config.py                         *)
(*                                                                         *)
(* A manifest is a record of the keys the code reads (name, enabled,       *)
(* ports, volumes, env, service, services, image).  A port or volume entry *)
(* written as a mapping has type "entry" and the six keys the parsers      *)
(* read; a compose service written as a mapping has type "service" and the *)
(* keys ports, volumes, environment, image, build; a compose document has  *)
(* type "compose" and the keys services and version.                       *)
(***************************************************************************)
\* isinstance(x, dict)
IsDict(x) == x.ytag \in {"dict", "entry", "service", "compose"}

NoItems == [ok |-> FALSE, items |-> <<>>]

\* the entries "for entry in x" yields; ok = FALSE: x is not iterable
Iterate(x) ==
    CASE x.ytag = "list" -> [ok |-> TRUE, items |-> x.yval]
      [] x.ytag = "str" -> [ok |-> TRUE, items |-> [i \in 1..Len(x.yval) |-> StrV(<<x.yval[i]>>)]]
      [] x.ytag = "dict" -> [ok |-> TRUE, items |-> [i \in 1..Len(x.yval) |-> StrV(x.yval[i][1])]]
      [] OTHER -> NoItems

Raised == [ok |-> FALSE, val |-> <<>>]

Returned(x) == [ok |-> TRUE, val |-> x]

\* one entry of parse_ports: the pair, or the ValueError
port_entry(entry) ==
    LET host == Or(Or(Get(entry.yval.host), Get(entry.yval.src)), Get(entry.yval.source))
        container == Or(Or(Get(entry.yval.container), Get(entry.yval.dst)),
                        Get(entry.yval.destination))
    IN IF entry.ytag = "entry" /\ host.ytag # "null" /\ container.ytag # "null"
       THEN Returned(<<ToStr(host), ToStr(container)>>)
       ELSE IF entry.ytag = "str" /\ HasChar(entry.yval, ":")
       THEN LET lr == SplitFirst(entry.yval, ":")
            IN Returned(<<StripWs(lr[1]), StripWs(lr[2])>>)
       ELSE Raised

\* one entry of parse_volumes
volume_entry(entry) ==
    LET src == Or(Or(Get(entry.yval.src), Get(entry.yval.source)), Get(entry.yval.host))
        dst == Or(Or(Get(entry.yval.dst), Get(entry.yval.destination)),
                  Get(entry.yval.container))
    IN IF entry.ytag = "entry" /\ src.ytag # "null" /\ dst.ytag # "null"
       THEN Returned(<<ToStr(src), ToStr(dst)>>)
       ELSE IF entry.ytag = "str" /\ HasChar(entry.yval, ":")
       THEN LET lr == SplitFirst(entry.yval, ":")
            IN IF HasChar(lr[2], ":")
               THEN Returned(<<StripWs(lr[1]), StripWs(SplitFirst(lr[2], ":")[1])>>)
               ELSE Returned(<<StripWs(lr[1]), StripWs(lr[2])>>)
       ELSE Raised

RECURSIVE parse_port_entries(_, _)
parse_port_entries(entries, result) ==
    IF entries = <<>> THEN Returned(result)
    ELSE LET e == port_entry(Head(entries))
         IN IF e.ok THEN parse_port_entries(Tail(entries), Append(result, e.val))
            ELSE Raised

RECURSIVE parse_volume_entries(_, _)
parse_volume_entries(entries, result) ==
    IF entries = <<>> THEN Returned(result)
    ELSE LET e == volume_entry(Head(entries))
         IN IF e.ok THEN parse_volume_entries(Tail(entries), Append(result, e.val))
            ELSE Raised

\* ports = config.get("ports") or []; for entry in ports: ...
parse_ports(config) ==
    LET ports == Or(Get(config.ports), ListV(<<>>))
        it == Iterate(ports)
    IN IF it.ok THEN parse_port_entries(it.items, <<>>) ELSE Raised

parse_volumes(config) ==
    LET volumes == Or(Get(config.volumes), ListV(<<>>))
        it == Iterate(volumes)
    IN IF it.ok THEN parse_volume_entries(it.items, <<>>) ELSE Raised

RECURSIVE env_items(_, _)
\* env_mapping[str(k)] = "" if v is None else str(v)
env_items(items, env_mapping) ==
    IF items = <<>> THEN env_mapping
    ELSE LET k == Head(items)[1]
             v == Head(items)[2]
         IN env_items(Tail(items),
                      Put(env_mapping, k, IF v.ytag = "null" THEN <<>> ELSE ToStr(v)))

\* env = config.get("env") or {}; a dict, or the ValueError
parse_env(config) ==
    LET env == Or(Get(config.env), DictV(<<>>))
    IN IF env.ytag = "dict" THEN Returned(env_items(env.yval, <<>>)) ELSE Raised

PROJECT_ROOT == <<"/", "p">>

\* the components of a path: the text between the slashes, the empty
\* components of doubled, leading and trailing slashes left out
RECURSIVE PathComponents(_, _, _)
PathComponents(chars, cur, acc) ==
    IF chars = <<>> THEN (IF cur = <<>> THEN acc ELSE Append(acc, cur))
    ELSE IF Head(chars) = "/"
    THEN PathComponents(Tail(chars), <<>>, IF cur = <<>> THEN acc ELSE Append(acc, cur))
    ELSE PathComponents(Tail(chars), Append(cur, Head(chars)), acc)

\* the symbolic links of the host: /p/lnk is a link to the directory /q
HostLinks == {<<<< <<"p">>, <<"l", "n", "k">> >>, << <<"q">> >>>>}

\* Path.resolve() (strict=False) on the components of an absolute path:
\* "." is dropped, ".." removes the last component of what is resolved so
\* far (none at the root), and a prefix that is a symbolic link is replaced
\* by its target
RECURSIVE ResolveComponents(_, _)
ResolveComponents(todo, done) ==
    IF todo = <<>> THEN done
    ELSE IF Head(todo) = <<".">> THEN ResolveComponents(Tail(todo), done)
    ELSE IF Head(todo) = <<".", ".">>
    THEN ResolveComponents(Tail(todo),
                           IF done = <<>> THEN done ELSE SubSeq(done, 1, Len(done) - 1))
    ELSE LET next == Append(done, Head(todo))
         IN IF \E l \in HostLinks : l[1] = next
            THEN ResolveComponents(Tail(todo), (CHOOSE l \in HostLinks : l[1] = next)[2])
            ELSE ResolveComponents(Tail(todo), next)

\* str() of an absolute path given by its components
RECURSIVE PathStr(_)
PathStr(parts) ==
    IF parts = <<>> THEN <<"/">>
    ELSE IF Len(parts) = 1 THEN <<"/">> \o parts[1]
    ELSE PathStr(SubSeq(parts, 1, Len(parts) - 1)) \o <<"/">> \o parts[Len(parts)]

\* normalize_host_path for paths without variables and without "~": an
\* empty or absolute path as it is, a relative one as
\* str((PROJECT_ROOT / expanded).resolve())
normalize_host_path(path_str) ==
    IF path_str = <<>> \/ Head(path_str) = "/" THEN path_str
    ELSE PathStr(ResolveComponents(
             PathComponents(PROJECT_ROOT \o <<"/">> \o path_str, <<>>, <<>>), <<>>))

\* f"${{{prefix}_PORT{i}_SRC}}:${{{prefix}_PORT{i}_DST}}"
PairExpr(prefix, role, i) ==
    <<"$", "{">> \o prefix \o <<"_">> \o role \o Digits(i) \o <<"_", "S", "R", "C", "}", ":", "$", "{">> \o
    prefix \o <<"_">> \o role \o Digits(i) \o <<"_", "D", "S", "T", "}">>

ports_expr(prefix, pairs) ==
    [i \in 1..Len(pairs) |-> StrV(PairExpr(prefix, <<"P", "O", "R", "T">>, i))]

\* volume expressions that are numbered from 0
volumes_expr_from_zero(prefix, pairs) ==
    [i \in 1..Len(pairs) |-> StrV(PairExpr(prefix, <<"V", "O", "L">>, i - 1))]

volumes_expr(prefix, pairs) ==
    [i \in 1..Len(pairs) |-> StrV(PairExpr(prefix, <<"V", "O", "L">>, i))]

\* env_expr_map[str(k)] = f"${{{prefix}_{key_name}}}"
env_expr_map(prefix, env_map) ==
    [i \in 1..Len(env_map) |->
        <<env_map[i][1],
          StrV(<<"$", "{">> \o prefix \o <<"_">> \o SanitizeKey(env_map[i][1]) \o <<"}">>)>>]

\* selected_service_names
selected_service_names(config) ==
    LET service == Get(config.service)
        services == Get(config.services)
    IN IF service.ytag = "str" /\ Truthy(service) THEN <<service.yval>>
       ELSE IF services.ytag = "list"
       THEN LET named == SelectSeq(services.yval,
                             LAMBDA x : x.ytag \in {"str", "int", "bool"})
            IN [i \in 1..Len(named) |-> ToStr(named[i])]
       ELSE <<>>

RECURSIVE filter_services(_, _, _)
\* for name in selected: if name in services and isinstance(services[name],
\* dict): filtered[name] = services[name]
filter_services(selected, services, filtered) ==
    IF selected = <<>> THEN filtered
    ELSE LET name == Head(selected)
         IN filter_services(Tail(selected), services,
                IF HasKey(services, name) /\ IsDict(Lookup(services, name))
                THEN Put(filtered, name, Lookup(services, name))
                ELSE filtered)

RECURSIVE env_list_to_dict(_, _)
\* for item in current_env: if isinstance(item, str) and "=" in item:
\*     k, v = item.split("=", 1); temp[k] = v
env_list_to_dict(items, temp) ==
    IF items = <<>> THEN temp
    ELSE LET item == Head(items)
         IN env_list_to_dict(Tail(items),
                IF item.ytag = "str" /\ HasChar(item.yval, "=")
                THEN LET kv == SplitFirst(item.yval, "=")
                     IN Put(temp, kv[1], StrV(kv[2]))
                ELSE temp)

\* a subsetting that keeps the filtered mapping even when it is empty
kept_services_strict(selected, filtered, services) ==
    IF selected # <<>> THEN filtered ELSE services

\* if selected_service_names: ... if not filtered: pass; else: services = filtered
kept_services(selected, filtered, services) ==
    IF selected # <<>> /\ filtered # <<>> THEN filtered ELSE services

\* a merge that sets the manifest's entries and forgets the existing ones
merge_environment_replace(current_env, expr_map) == DictV(expr_map)

\* the environment of a service after the merge
merge_environment(current_env, expr_map) ==
    IF current_env.ytag = "dict" THEN DictV(Update(current_env.yval, expr_map))
    ELSE IF current_env.ytag = "list"
    THEN DictV(Update(env_list_to_dict(current_env.yval, <<>>), expr_map))
    ELSE DictV(expr_map)

\* a loop body that adds the port expressions to the existing ports
rewrite_service_additive(svc, p_expr, v_expr, expr_map, cfg_image) ==
    IF ~IsDict(svc) THEN svc
    ELSE [svc EXCEPT
            !.yval.ports = IF p_expr # <<>>
                        THEN ListV((IF @.ytag = "list" THEN @.yval ELSE <<>>) \o p_expr)
                        ELSE @,
            !.yval.environment =
                IF expr_map # <<>> THEN merge_environment(Get(@), expr_map) ELSE @]

\* a loop body that writes back only the keys it knows
rewrite_service_known_keys(svc, p_expr, v_expr, expr_map, cfg_image) ==
    IF ~IsDict(svc) THEN svc
    ELSE [svc EXCEPT
            !.yval.ports = IF p_expr # <<>> THEN ListV(p_expr) ELSE @,
            !.yval.volumes = IF v_expr # <<>> THEN ListV(v_expr) ELSE @,
            !.yval.environment =
                IF expr_map # <<>> THEN merge_environment(Get(@), expr_map) ELSE @,
            !.yval.image =
                IF cfg_image.ytag = "str" /\ StripWs(cfg_image.yval) # <<>>
                THEN StrV(StripWs(cfg_image.yval)) ELSE @,
            !.yval.build = Absent]

\* the body of "for svc_name, svc in services.items()"
rewrite_service(svc, p_expr, v_expr, expr_map, cfg_image) ==
    IF ~IsDict(svc) THEN svc
    ELSE [svc EXCEPT
            !.yval.ports = IF p_expr # <<>> THEN ListV(p_expr) ELSE @,
            !.yval.volumes = IF v_expr # <<>> THEN ListV(v_expr) ELSE @,
            !.yval.environment =
                IF expr_map # <<>> THEN merge_environment(Get(@), expr_map) ELSE @,
            !.yval.image =
                IF cfg_image.ytag = "str" /\ StripWs(cfg_image.yval) # <<>>
                THEN StrV(StripWs(cfg_image.yval)) ELSE @]

\* The compose document that docker-compose.yml holds after
\* rewrite_compose_with_env; a document that is not a mapping, or has no
\* non-empty services mapping, is left as it is.
rewrite_compose_with_env(compose_data, honeypot_name, config) ==
    IF compose_data.ytag # "compose" THEN compose_data
    ELSE LET services == Get(compose_data.yval.services) IN
    IF services.ytag # "dict" \/ services.yval = <<>> THEN compose_data
    ELSE LET prefix == to_var_prefix(honeypot_name)
             selected == selected_service_names(config)
             filtered == filter_services(selected, services.yval, <<>>)
             kept == kept_services(selected, filtered, services.yval)
             pp == parse_ports(config)
             vp == parse_volumes(config)
             p_expr == IF pp.ok THEN ports_expr(prefix, pp.val) ELSE <<>>
             v_expr == IF vp.ok THEN volumes_expr(prefix, vp.val) ELSE <<>>
             env_map == IF Get(config.env).ytag = "dict"
                        THEN parse_env(config).val ELSE <<>>
             expr_map == env_expr_map(prefix, env_map)
             cfg_image == Get(config.image)
         IN [compose_data EXCEPT !.yval.services =
                DictV([i \in 1..Len(kept) |->
                         <<kept[i][1],
                           rewrite_service(kept[i][2], p_expr, v_expr, expr_map,
                                           cfg_image)>>])]


(***************************************************************************)
(* EphemeralProcessRunner: run_with_ephemeral_logs                         *)
(*                                                                         *)
(* Output lines are strings of LogLines; "keyword in line.lower()" is     *)
(* computed on the characters of the line.                                 *)
(***************************************************************************)
MaxLines == 2
MaxTime == 2

LogLines ==
    {"Starting cowrie containers ...", "Stopping cowrie containers ...",
     "hello", "Step 1/3 : FROM alpine", "ERROR: build failed",
     "#1 transferring context: 2B", "Pulling cowrie",
     "a1b2: Pulling fs layer", "a1b2: Waiting", "a1b2: Download complete",
     "a1b2: Pull complete", "Digest: sha256:abcd",
     "Container cowrie Started", "a1b2: Verifying Checksum",
     "Downloaded 5 crates", "a1b2: Extracting [==>] 1.2MB/3MB",
     "Network cowrie_default Creating"}

\* c.lower() of one character
LowerChar(c) ==
    IF c \in Range(UpperCase)
    THEN LowerCase[CHOOSE i \in 1..26 : UpperCase[i] = c]
    ELSE c

RECURSIVE LowerStr(_)
\* line.lower()
LowerStr(line) ==
    IF Len(line) = 0 THEN ""
    ELSE LowerChar(SubSeq(line, 1, 1)) \o LowerStr(SubSeq(line, 2, Len(line)))

\* keyword in line_lower
In(keyword, line_lower) ==
    \E i \in 1..(Len(line_lower) - Len(keyword) + 1) :
        SubSeq(line_lower, i, i + Len(keyword) - 1) = keyword

\* keyword in line.lower()
LowerContains(line, keyword) == In(keyword, LowerStr(line))

important_keywords ==
    {"error", "failed", "fatal", "exception", "warn", "warning", "done",
     "finished", "complete", "started", "created", "pull complete"}

pull_detail_keywords ==
    {"fs layer", "waiting", "downloading", "extracting", "verifying"}

skip_patterns ==
    {"#", "transferring", "load build definition", "load metadata",
     "building with", "load .dockerignore", "internal",
     "pulling fs layer", "waiting", "downloading [", "extracting [",
     "verifying checksum", "download complete",
     "sha256:", "resolve docker.io", "kb / ", "mb / ", "gb / ",
     "(reading database", "files and directories currently installed",
     "downloaded ", "kb/s", "mb/s", " added, ", " removed; done"}

\* is_build_command = "up" in command and "-d" in command
is_build_command(cmd) ==
    (\E i \in 1..Len(cmd) : cmd[i] = "up") /\ (\E i \in 1..Len(cmd) : cmd[i] = "-d")

\* a filter that consults the skip patterns before the important keywords
should_show_line_skip_first(line, build) ==
    IF ~build THEN TRUE
    ELSE IF \E k \in skip_patterns : LowerContains(line, k) THEN FALSE
    ELSE TRUE

should_show_line(line, build) ==
    IF ~build THEN TRUE
    ELSE IF \E k \in important_keywords : LowerContains(line, k) THEN TRUE
    ELSE IF /\ LowerContains(line, "pulling")
            /\ ~\E k \in pull_detail_keywords : LowerContains(line, k)
         THEN TRUE
    ELSE IF \E k \in skip_patterns : LowerContains(line, k) THEN FALSE
    ELSE TRUE

RECURSIVE Strip(_)
\* str.strip() of a line read from the pipe
Strip(raw) ==
    IF Len(raw) = 0 THEN raw
    ELSE IF SubSeq(raw, 1, 1) \in Whitespace THEN Strip(SubSeq(raw, 2, Len(raw)))
    ELSE IF SubSeq(raw, Len(raw), Len(raw)) \in Whitespace
    THEN Strip(SubSeq(raw, 1, Len(raw) - 1))
    ELSE raw

\* ---- the terminal: rows, and the row the cursor is on
Blank == <<"blank">>

LogRow(line) == <<"log", line>>

SummaryRow(status, result) == <<"summary", status, result>>

ErrorRow == <<"error">>

\* print(text): written on the cursor's row, the cursor moves to the next row
PrintRow(t, row) ==
    [screen |-> IF t.cursor <= Len(t.screen)
                THEN [t.screen EXCEPT ![t.cursor] =
                         IF @ = Blank THEN row ELSE <<"garbled">>]
                ELSE Append(t.screen, row),
     cursor |-> t.cursor + 1]

\* CLEAR_LINE
ClearRow(t) ==
    [t EXCEPT !.screen = IF t.cursor <= Len(t.screen)
                         THEN [t.screen EXCEPT ![t.cursor] = Blank]
                         ELSE t.screen]

\* MOVE_UP
MoveUp(t) == [t EXCEPT !.cursor = IF t.cursor > 1 THEN t.cursor - 1 ELSE 1]

RECURSIVE clear_lines(_, _)
\* for _ in range(count): print(CLEAR_LINE + MOVE_UP); then print(CLEAR_LINE)
clear_lines(t, count) ==
    IF count = 0 THEN ClearRow(t)
    ELSE clear_lines(MoveUp(ClearRow(t)), count - 1)

\* clear_logs that leaves the oldest displayed line on the screen
clear_logs_short(t, buffer) ==
    IF Len(buffer) > 1 THEN clear_lines(t, Len(buffer) - 1) ELSE t

clear_logs(t, buffer) == IF buffer # <<>> THEN clear_lines(t, Len(buffer)) ELSE t

\* a success flag that ignores the return code
AlwaysSucceeded(return_code) == TRUE

\* return return_code == 0, duration
Succeeded(return_code) == return_code = 0

LogRowsOf(screen) == {i \in 1..Len(screen) : screen[i][1] = "log"}

\* the log rows of t that are blank in u
ErasedRows(t, u) ==
    Cardinality({i \in LogRowsOf(t.screen) : u.screen[i] = Blank})

\* log_line up to the callback: [log, term, shown]
log_line(buffer, t, line, build) ==
    IF should_show_line(line, build)
    THEN [log |-> Append(buffer, line), term |-> PrintRow(t, LogRow(line)),
          shown |-> TRUE]
    ELSE [log |-> buffer, term |-> t, shown |-> FALSE]

StartLine(action) ==
    IF action = "down" THEN "Stopping cowrie containers ..."
    ELSE "Starting cowrie containers ..."

RunArgs ==
    {[cmd |-> c, action |-> a, timeout |-> t, on_log_line |-> f] :
        c \in {<<"docker", "compose", "up", "-d">>, <<"docker", "compose", "down">>,
               <<"sleep", "10">>},
        a \in {"up", "down", "None"},
        t \in {<<>>} \cup {<<n>> : n \in 1..MaxTime},
        f \in {"None", "callback"}}

\* What the subprocess writes in this specification
RunLines == {"hello", "#1 transferring context: 2B", "ERROR: build failed", " "}

\* an exception handler that prints the summary and leaves the log lines
ReturnByExceptionUncleared(buffer, t) ==
    /\ term' = PrintRow(PrintRow(t, SummaryRow("FAIL", "ERROR")), ErrorRow)
    /\ erased' = 0
    /\ log_lines' = buffer
    /\ runResult' = [success |-> FALSE, outcome |-> "ERROR", duration |-> clock]
    /\ runPc' = "returned"

\* except Exception: clear_logs, the [FAIL] ... ERROR summary, the error line
ReturnByException(buffer, t) ==
    LET cleared == clear_logs(t, buffer) IN
    /\ term' = PrintRow(PrintRow(cleared, SummaryRow("FAIL", "ERROR")), ErrorRow)
    /\ erased' = ErasedRows(t, cleared)
    /\ log_lines' = buffer
    /\ runResult' = [success |-> FALSE, outcome |-> "ERROR", duration |-> clock]
    /\ runPc' = "returned"

\* the call, up to and including log_line("Starting ... containers ...")
RunStart(args, raises) ==
    /\ runPc = "idle"
    /\ runIn' = args
    /\ LET r == log_line(<<>>, term, StartLine(args.action), is_build_command(args.cmd))
       IN /\ raises => (r.shown /\ args.on_log_line = "callback")
          /\ printed' = IF r.shown THEN 1 ELSE 0
          /\ IF raises
             THEN ReturnByException(r.log, r.term)
             ELSE /\ log_lines' = r.log
                  /\ term' = r.term
                  /\ runPc' = "launch"
                  /\ UNCHANGED <<erased, runResult>>
    /\ UNCHANGED <<proc, procCode, stdoutOpen, pipe, emitted, clock, overran,
                   popenCalls>>
    /\ UNCHANGED notRunVars

\* subprocess.Popen succeeds
RunPopen ==
    /\ runPc = "launch"
    /\ popenCalls' = popenCalls + 1
    /\ proc' = "running"
    /\ stdoutOpen' = TRUE
    /\ runPc' = "reading"
    /\ UNCHANGED <<runIn, procCode, pipe, emitted, clock, overran, log_lines,
                   term, printed, erased, runResult>>
    /\ UNCHANGED notRunVars

\* subprocess.Popen raises (the executable cannot be launched)
RunPopenFails ==
    /\ runPc = "launch"
    /\ popenCalls' = popenCalls + 1
    /\ ReturnByException(log_lines, term)
    /\ UNCHANGED <<runIn, proc, procCode, stdoutOpen, pipe, emitted, clock,
                   overran, printed>>
    /\ UNCHANGED notRunVars

\* the subprocess writes a line
ProcEmit(raw) ==
    /\ proc = "running" /\ stdoutOpen /\ emitted < MaxLines
    /\ pipe' = Append(pipe, raw)
    /\ emitted' = emitted + 1
    /\ UNCHANGED <<runPc, runIn, proc, procCode, stdoutOpen, clock, overran,
                   log_lines, term, printed, erased, popenCalls, runResult>>
    /\ UNCHANGED notRunVars

\* the subprocess closes its output and keeps running
ProcCloseStdout ==
    /\ proc = "running" /\ stdoutOpen
    /\ stdoutOpen' = FALSE
    /\ UNCHANGED <<runPc, runIn, proc, procCode, pipe, emitted, clock, overran,
                   log_lines, term, printed, erased, popenCalls, runResult>>
    /\ UNCHANGED notRunVars

\* the subprocess ends
ProcExit(code) ==
    /\ proc = "running"
    /\ proc' = "exited"
    /\ procCode' = code
    /\ stdoutOpen' = FALSE
    /\ UNCHANGED <<runPc, runIn, pipe, emitted, clock, overran, log_lines, term,
                   printed, erased, popenCalls, runResult>>
    /\ UNCHANGED notRunVars

\* one second passes after the launch, while the call is in progress
Tick ==
    /\ runPc \in {"reading", "waiting"}
    /\ clock < MaxTime
    /\ clock' = clock + 1
    /\ overran' = (overran \/ (/\ runIn.timeout # <<>>
                               /\ proc = "running"
                               /\ clock' >= runIn.timeout[1]))
    /\ UNCHANGED <<runPc, runIn, proc, procCode, stdoutOpen, pipe, emitted,
                   log_lines, term, printed, erased, popenCalls, runResult>>
    /\ UNCHANGED notRunVars

\* process.stdout.readline() yields a line; strip; log_line if not empty.
\* raises: reading or the on_log_line callback raises.
RunReadLine(raises) ==
    /\ runPc = "reading"
    /\ pipe # <<>>
    /\ pipe' = Tail(pipe)
    /\ LET line == Strip(Head(pipe))
           r == IF line # ""
                THEN log_line(log_lines, term, line, is_build_command(runIn.cmd))
                ELSE [log |-> log_lines, term |-> term, shown |-> FALSE]
       IN /\ raises = "callback" => (r.shown /\ runIn.on_log_line = "callback")
          /\ printed' = IF r.shown /\ raises # "read" THEN printed + 1 ELSE printed
          /\ IF raises = "read" THEN ReturnByException(log_lines, term)
             ELSE IF raises = "callback" THEN ReturnByException(r.log, r.term)
             ELSE /\ log_lines' = r.log
                  /\ term' = r.term
                  /\ UNCHANGED <<runPc, erased, runResult>>
    /\ UNCHANGED <<runIn, proc, procCode, stdoutOpen, emitted, clock, overran,
                   popenCalls>>
    /\ UNCHANGED notRunVars

\* readline() yields "" at end of file: the loop ends once poll() is not None,
\* and goes round again while the subprocess is still running.
RunReadEof ==
    /\ runPc = "reading"
    /\ pipe = <<>> /\ ~stdoutOpen
    /\ runPc' = IF proc # "running" THEN "waiting" ELSE "reading"
    /\ UNCHANGED <<runIn, proc, procCode, stdoutOpen, pipe, emitted, clock,
                   overran, log_lines, term, printed, erased, popenCalls,
                   runResult>>
    /\ UNCHANGED notRunVars

\* return_code = process.wait(timeout=timeout) and what follows it.  An exited
\* subprocess gives its code at once; one still running lets wait() raise
\* TimeoutExpired when a timeout was given (else wait() blocks).
RunWait ==
    /\ runPc = "waiting"
    /\ proc = "running" => runIn.timeout # <<>>
    /\ IF proc # "running"
       THEN LET return_code == procCode
                cleared == clear_logs(term, log_lines)
                status == IF return_code = 0
                          THEN (IF runIn.action = "down" THEN "DOWN" ELSE "UP")
                          ELSE "FAIL"
                result == IF return_code = 0 THEN "OK" ELSE "ERR"
            IN /\ term' = PrintRow(cleared, SummaryRow(status, result))
               /\ erased' = ErasedRows(term, cleared)
               /\ runResult' = [success |-> Succeeded(return_code), outcome |-> result,
                                duration |-> clock]
               /\ proc' = proc
       ELSE LET cleared == clear_logs(term, log_lines)
            IN /\ proc' = "killed"
               /\ term' = PrintRow(cleared, SummaryRow("FAIL", "TIMEOUT"))
               /\ erased' = ErasedRows(term, cleared)
               /\ runResult' = [success |-> FALSE, outcome |-> "TIMEOUT",
                                duration |-> clock]
    /\ runPc' = "returned"
    /\ UNCHANGED <<runIn, procCode, stdoutOpen, pipe, emitted, clock, overran,
                   log_lines, printed, popenCalls>>
    /\ UNCHANGED notRunVars

InitRun == RunIdle /\ FsIdle /\ RwIdle /\ CmdIdle /\ EnvIdle /\ CpIdle /\ PrIdle

NextRun ==
    \/ \E args \in RunArgs, raises \in BOOLEAN : RunStart(args, raises)
    \/ RunPopen
    \/ RunPopenFails
    \/ \E raw \in RunLines : ProcEmit(raw)
    \/ ProcCloseStdout
    \/ \E code \in {0, 1} : ProcExit(code)
    \/ Tick
    \/ \E raises \in {"no", "read", "callback"} : RunReadLine(raises)
    \/ RunReadEof
    \/ RunWait

SpecRun == InitRun /\ [][NextRun]_vars

(***************************************************************************)
(* SpecShow: the runs of run_with_ephemeral_logs in which nothing raises   *)
(* and the subprocess ends with exit code 0, over output lines that match  *)
(* the important keywords, the skip patterns, both or neither.             *)
(***************************************************************************)
ShowLines ==
    {"hello", " ", "  ERROR: build failed ", "a1b2: Download complete",
     "#5 DONE 0.3s", "a1b2: Pulling fs layer", "Pulling cowrie",
     "Digest: sha256:abcd", "12.3kB/s", "a1b2: Waiting"}

ShowArgs ==
    {[cmd |-> c, action |-> a, timeout |-> <<>>, on_log_line |-> "None"] :
        c \in {<<"docker", "compose", "up", "-d">>, <<"docker", "compose", "down">>},
        a \in {"up", "down"}}

NextShow ==
    \/ \E args \in ShowArgs : RunStart(args, FALSE)
    \/ RunPopen
    \/ \E raw \in ShowLines : ProcEmit(raw)
    \/ ProcExit(0)
    \/ RunReadLine("no")
    \/ RunReadEof
    \/ RunWait

SpecShow == InitRun /\ [][NextShow]_vars

\* the line that a step of the read loop takes from the pipe
LineRead == Strip(Head(pipe))

\* a step of the read loop on a non-empty line of a start command
ReadsWhileStarting ==
    /\ runPc = "reading" /\ pipe # <<>> /\ pipe' = Tail(pipe)
    /\ is_build_command(runIn.cmd)
    /\ LineRead # ""

\* C17: while a start command runs, a step of the read loop on a non-empty
\* line that contains one of the keywords error, failed, fatal, exception,
\* warn, done, finished, complete, started, created, pull complete prints
\* the line and appends it to the buffer, whether or not the line matches
\* a skip pattern.
C17_ImportantLinesAreShown ==
    [][(/\ ReadsWhileStarting
        /\ \E k \in {"error", "failed", "fatal", "exception", "warn", "done",
                     "finished", "complete", "started", "created", "pull complete"} :
              In(k, LowerStr(LineRead)))
       => /\ log_lines' = Append(log_lines, LineRead)
          /\ term' = PrintRow(term, LogRow(LineRead))
          /\ printed' = printed + 1]_vars

\* a start command has displayed a line that holds the keyword "complete"
\* and matches the skip pattern "download complete"
C17_Witness ==
    /\ is_build_command(runIn.cmd)
    /\ runPc = "reading"
    /\ \E i \in 1..Len(log_lines) :
          /\ log_lines[i] = "a1b2: Download complete"
          /\ In("download complete", LowerStr(log_lines[i]))
          /\ "download complete" \in skip_patterns

\* C18: while a start command runs, a step of the read loop on a line that
\* matches a skip pattern neither prints the line nor appends it to the
\* buffer.
C18_VerboseLinesAreSuppressed ==
    [][(/\ ReadsWhileStarting
        /\ \E k \in skip_patterns : In(k, LowerStr(LineRead)))
       => UNCHANGED <<log_lines, term, printed>>]_vars


SummaryRowsOf(screen) == {i \in 1..Len(screen) : screen[i][1] = "summary"}

GarbledRowsOf(screen) == {i \in 1..Len(screen) : screen[i][1] = "garbled"}

\* C2: when the subprocess was still running T seconds after the launch of
\* a call with timeout T, the call that has returned (not through the
\* exception handler) has killed the subprocess and returned success=false
\* with the TIMEOUT summary.
C2_TimeoutKillsAndReportsTimeout ==
    (runPc = "returned" /\ overran /\ runResult.outcome # "ERROR") =>
        /\ runResult.outcome = "TIMEOUT"
        /\ ~runResult.success
        /\ proc = "killed"

\* C5: every displayed log line is printed and buffered; when the call has
\* returned, as many rows were erased as log lines were printed, no log
\* line is left on the screen, exactly one summary line is on it, and what
\* was on the screen before the call is untouched.
C5_ErasedEqualsPrintedOneSummary ==
    /\ printed = Len(log_lines)
    /\ runPc \in {"launch", "reading", "waiting"} =>
           Cardinality(LogRowsOf(term.screen)) = printed
    /\ runPc = "returned" =>
           /\ erased = printed
           /\ LogRowsOf(term.screen) = {}
           /\ GarbledRowsOf(term.screen) = {}
           /\ Cardinality(SummaryRowsOf(term.screen)) = 1
           /\ term.screen[1] = <<"prior">>
           /\ term.screen[2][1] = "summary"

\* three log lines were printed, then erased, and the subprocess failed
C5_Witness ==
    /\ runPc = "returned"
    /\ printed = 3 /\ erased = 3
    /\ runResult.outcome = "ERR"

\* C6 as stated: a returned call has launched the subprocess exactly once,
\* has one of the outcomes Succeeded, Failed, TimedOut, and returned
\* success=true if and only if the subprocess exited with code 0.
C6_SuccessIffExitCodeZero ==
    runPc = "returned" =>
        /\ popenCalls = 1
        /\ runResult.outcome \in {"OK", "ERR", "TIMEOUT"}
        /\ runResult.success <=> (proc = "exited" /\ procCode = 0)

\* C6: a returned call has attempted the launch at most once, and exactly
\* once unless it returned through the exception handler; it has exactly
\* one outcome (OK, ERR, TIMEOUT, or ERROR for an exception, which is a
\* failure); it returned success=true if and only if the subprocess exited
\* with code 0 and no exception was raised; and the outcome never changes
\* after the return.
C6_OneLaunchOneOutcome ==
    /\ [](/\ popenCalls <= 1
          /\ runPc = "returned" =>
                /\ runResult.outcome \in {"OK", "ERR", "TIMEOUT", "ERROR"}
                /\ runResult.outcome # "ERROR" => popenCalls = 1
                /\ runResult.success <=>
                      (/\ proc = "exited" /\ procCode = 0
                       /\ runResult.outcome # "ERROR")
                /\ runResult.success <=> runResult.outcome = "OK")
    /\ [][runPc = "returned" =>
             /\ runPc' = "returned"
             /\ runResult' = runResult
             /\ popenCalls' = popenCalls]_vars

\* the subprocess had exited with code 0 and the call returned success=true
C6_Witness ==
    /\ runPc = "returned"
    /\ popenCalls = 1
    /\ proc = "exited" /\ procCode = 0
    /\ runResult.success

\* C7: a call in which an exception was raised returns (outcome ERROR) with
\* success=false, the log lines displayed so far erased, and the failure
\* summary followed by the error line as the last two lines.
C7_ExceptionIsAFailedRun ==
    (runPc = "returned" /\ runResult.outcome = "ERROR") =>
        /\ ~runResult.success
        /\ erased = printed
        /\ LogRowsOf(term.screen) = {}
        /\ term.screen[2] = SummaryRow("FAIL", "ERROR")
        /\ term.screen[3] = ErrorRow
        /\ term.cursor = 4

\* the launch failed after the first log line had been displayed
C7_Witness ==
    /\ runPc = "returned"
    /\ runResult.outcome = "ERROR"
    /\ popenCalls = 1 /\ proc = "none"
    /\ printed = 1 /\ erased = 1

\* C30: when a call that launched its subprocess has returned (normally, by
\* timeout, or by an exception raised while reading the output or by the
\* on_log_line callback), that subprocess has exited or has been killed.
C30_SubprocessHasTerminatedOnReturn ==
    (runPc = "returned" /\ proc # "none") => proc \in {"exited", "killed"}


(***************************************************************************)
(* SpecRewrite: rewrite_compose_with_env applied, and applied again, to    *)
(* the docker-compose.yml of one working directory.                        *)
(***************************************************************************)
MaxRewrites == 2

s_web == <<"w", "e", "b">>

s_db == <<"d", "b">>

s_KEY == <<"K", "E", "Y">>

s_OTHER == <<"O", "T", "H", "E", "R">>

s_a_b == <<"a", "-", "b">>

Service(ports, environment, image) ==
    [ytag |-> "service",
     yval |-> [ports |-> ports, volumes |-> Absent, environment |-> environment,
            image |-> image, build |-> Absent]]

\* the service entries of the documents: a mapping, or the null of "web:"
ServiceValues ==
    {Null,
     Service(Absent, Absent, Absent),
     [Service(ListV(<<StrV(<<"1", ":", "1">>)>>),
              DictV(<< <<s_KEY, StrV(<<"o", "l", "d">>)>>, <<s_OTHER, StrV(<<"x">>)>> >>),
              StrV(<<"o", "l", "d">>))
        EXCEPT !.yval.volumes = ListV(<<StrV(<<"/", "o", ":", "/", "o">>)>>),
               !.yval.build = StrV(<<".">>)],
     Service(Absent,
             ListV(<<StrV(<<"K", "E", "Y", "=", "o", "l", "d">>), StrV(<<"O", "T", "H", "E", "R", "=", "x">>)>>),
             Absent),
     Service(Absent,
             ListV(<<StrV(<<"O", "T", "H", "E", "R", "=", "x">>), StrV(<<"B", "A", "R", "E">>), IntV(5),
                     StrV(<<"O", "T", "H", "E", "R", "=", "y", "=", "z">>)>>),
             Absent),
     Service(Absent, StrV(<<"x">>), Absent)}

Compose(services) ==
    [ytag |-> "compose", yval |-> [services |-> services, version |-> StrV(<<"3">>)]]

NoFile == [ytag |-> "nofile", yval |-> 0]

\* what docker-compose.yml holds before the rewrite
ComposeDocs ==
    {NoFile, ListV(<<>>), Compose(Absent), Compose(DictV(<<>>))}
    \cup {Compose(DictV(<< <<s_web, w>> >>)) : w \in ServiceValues}
    \cup {Compose(DictV(<< <<s_web, w>>, <<s_db, d>> >>)) :
             w \in ServiceValues, d \in ServiceValues}

Manifest(service, services, ports, env, image) ==
    [name |-> StrV(<<"M", "y", " ", "P", "o", "t">>), enabled |-> BoolV(TRUE), ports |-> ports,
     volumes |-> Absent, env |-> env, service |-> service,
     services |-> services, image |-> image]

\* the service / services keys of the manifests
Selectors ==
    {<<Absent, Absent>>,
     <<StrV(s_web), Absent>>,
     <<StrV(<<"z", "z">>), ListV(<<StrV(s_web)>>)>>,
     <<StrV(<<>>), ListV(<<StrV(s_db)>>)>>,
     <<Absent, ListV(<<StrV(s_db), StrV(s_web)>>)>>,
     <<Absent, ListV(<<StrV(<<"z", "z">>), IntV(5)>>)>>,
     <<Absent, ListV(<<Null, StrV(s_db)>>)>>}

RewriteManifests ==
    {[Manifest(sel[1], sel[2], ports, env, image) EXCEPT !.volumes = volumes] :
        sel \in Selectors,
        volumes \in {Absent, ListV(<<StrV(<<".", "/", "d", ":", "/", "d">>),
                                     StrV(<<"/", "x", ":", "/", "y", ":", "r", "o">>)>>)},
        ports \in {Absent, ListV(<<StrV(<<"8", "0", ":", "8", "0">>), StrV(<<"2", "2", "2", "2", ":", "2", "2">>)>>),
                   ListV(<<StrV(<<"8", "0">>)>>)},
        env \in {Absent,
                 DictV(<< <<s_KEY, StrV(<<"v">>)>> >>),
                 DictV(<< <<s_a_b, IntV(1)>>, <<s_KEY, Null>> >>),
                 ListV(<<StrV(<<"K", "E", "Y", "=", "v">>)>>)},
        image \in {Absent, StrV(<<" ">>), StrV(<<" ", "i", "m", "g", " ">>)}}

\* resolved_name = str(data.get("name") or honeypot_id)
resolved_name(data, honeypot_id) == ToStr(Or(Get(data.name), StrV(honeypot_id)))

InitRewrite ==
    /\ rwFile \in ComposeDocs
    /\ rwPrev = rwFile
    /\ rwOrig = rwFile
    /\ rwCfg \in RewriteManifests
    /\ rwName = resolved_name(rwCfg, <<"c", "o", "w", "r", "i", "e">>)
    /\ rwCount = 0
    /\ FsIdle /\ RunIdle /\ CmdIdle /\ EnvIdle /\ CpIdle /\ PrIdle

\* rewrite_compose_with_env(dest_dir, honeypot_id, honeypot_name, config)
RewriteCompose ==
    /\ rwCount < MaxRewrites
    /\ rwPrev' = rwFile
    /\ rwFile' = rewrite_compose_with_env(rwFile, rwName, rwCfg)
    /\ rwCount' = rwCount + 1
    /\ UNCHANGED <<rwOrig, rwCfg, rwName>>
    /\ UNCHANGED notRwVars

NextRewrite == RewriteCompose

SpecRewrite == InitRewrite /\ [][NextRewrite]_vars

\* the services mapping of a document that the rewrite processes
HasServices(doc) ==
    /\ doc.ytag = "compose"
    /\ Get(doc.yval.services).ytag = "dict"
    /\ Get(doc.yval.services).yval # <<>>

\* two values are equal, mappings being compared without their order
SameValue(x, y) ==
    IF x.ytag = "dict" /\ y.ytag = "dict"
    THEN Items(x.yval) = Items(y.yval) /\ Len(x.yval) = Len(y.yval)
    ELSE x = y

SameService(x, y) ==
    IF x.ytag = "service" /\ y.ytag = "service"
    THEN /\ SameValue(x.yval.ports, y.yval.ports)
         /\ SameValue(x.yval.volumes, y.yval.volumes)
         /\ SameValue(x.yval.environment, y.yval.environment)
         /\ SameValue(x.yval.image, y.yval.image)
    ELSE x = y

\* C8: the second application of the rewrite with the same manifest leaves
\* the set of services, and the ports, volumes, environment and image of
\* each service, as the first application left them.
C8_RewriteIdempotent ==
    rwCount = 2 =>
        IF HasServices(rwPrev)
        THEN /\ HasServices(rwFile)
             /\ Keys(rwFile.yval.services.yval) = Keys(rwPrev.yval.services.yval)
             /\ \A n \in Keys(rwPrev.yval.services.yval) :
                   SameService(Lookup(rwFile.yval.services.yval, n),
                               Lookup(rwPrev.yval.services.yval, n))
        ELSE rwFile = rwPrev

\* rewritten twice; the first rewrite dropped a service, set the ports and
\* turned a list-form environment into a mapping
C8_Witness ==
    /\ rwCount = 2
    /\ HasServices(rwOrig) /\ HasServices(rwPrev)
    /\ Keys(rwPrev.yval.services.yval) = {s_web}
    /\ Keys(rwOrig.yval.services.yval) = {s_web, s_db}
    /\ Lookup(rwOrig.yval.services.yval, s_web).ytag = "service"
    /\ Lookup(rwOrig.yval.services.yval, s_web).yval.environment.ytag = "list"
    /\ Lookup(rwPrev.yval.services.yval, s_web).yval.environment.ytag = "dict"
    /\ Lookup(rwPrev.yval.services.yval, s_web).yval.ports.ytag = "list"

\* the names the manifest selects
SelectedNames == Range(selected_service_names(rwCfg))

\* C9 as stated: the rewrite never empties the services mapping; when a
\* selected name exists among the services, the services after the rewrite
\* are exactly the selected names that exist, else the same as before.
C9_SubsetIsSelectedExisting ==
    (rwCount = 1 /\ HasServices(rwPrev)) =>
        LET before == Keys(rwPrev.yval.services.yval)
            existing == SelectedNames \cap before
        IN /\ HasServices(rwFile)
           /\ Keys(rwFile.yval.services.yval) =
                 IF existing # {} THEN existing ELSE before

\* C9: the rewrite never empties the services mapping; when a selected name
\* exists among the services as a mapping, the services after the rewrite
\* are exactly the selected names that exist as mappings, else the same
\* set of services as before.
C9_SubsetIsSelectedExistingMappings ==
    (rwCount = 1 /\ HasServices(rwPrev)) =>
        LET before == Keys(rwPrev.yval.services.yval)
            existing == {n \in SelectedNames \cap before :
                            Lookup(rwPrev.yval.services.yval, n).ytag = "service"}
        IN /\ HasServices(rwFile)
           /\ Keys(rwFile.yval.services.yval) =
                 IF existing # {} THEN existing ELSE before

\* two services, one of them selected, and only that one is left
C9_Witness ==
    /\ rwCount = 1
    /\ HasServices(rwPrev)
    /\ Keys(rwPrev.yval.services.yval) = {s_web, s_db}
    /\ SelectedNames = {s_web}
    /\ Keys(rwFile.yval.services.yval) = {s_web}

\* the manifest has env entries
HasEnvEntries == Get(rwCfg.env).ytag = "dict" /\ rwCfg.env.yval # <<>>

\* ${PREFIX_<SANITIZED K>}
EnvExpr(k) ==
    StrV(<<"$", "{">> \o to_var_prefix(rwName) \o <<"_">> \o SanitizeKey(k) \o <<"}">>)

\* the key of a list-form entry: the text before the first "="
ListEntryKey(item) ==
    IF HasChar(item.yval, "=") THEN SplitFirst(item.yval, "=")[1] ELSE item.yval

\* the items of a list-form environment that are KEY=VALUE strings
KeyValueItems(items) ==
    {i \in 1..Len(items) : items[i].ytag = "str" /\ HasChar(items[i].yval, "=")}

\* C10 as stated: every manifest key maps to its expression, and every
\* entry of the previous environment under a key not in the manifest is
\* still present, for a previous environment in mapping or in list form.
C10_MergeKeepsEveryEntry ==
    (rwCount = 1 /\ HasServices(rwPrev) /\ HasEnvEntries) =>
        \A n \in Keys(rwFile.yval.services.yval) :
            LET old == Get(Lookup(rwPrev.yval.services.yval, n).yval.environment)
                new == Lookup(rwFile.yval.services.yval, n).yval.environment
            IN Lookup(rwFile.yval.services.yval, n).ytag = "service" =>
                /\ new.ytag = "dict"
                /\ \A k \in Keys(rwCfg.env.yval) :
                      HasKey(new.yval, k) /\ Lookup(new.yval, k) = EnvExpr(k)
                /\ old.ytag = "dict" =>
                      \A k \in Keys(old.yval) \ Keys(rwCfg.env.yval) :
                          HasKey(new.yval, k) /\ Lookup(new.yval, k) = Lookup(old.yval, k)
                /\ old.ytag = "list" =>
                      \A i \in 1..Len(old.yval) :
                          (old.yval[i].ytag = "str" /\ ListEntryKey(old.yval[i]) \notin Keys(rwCfg.env.yval))
                              => HasKey(new.yval, ListEntryKey(old.yval[i]))

\* C10: every manifest key maps to its expression; an entry of a previous
\* mapping under a key not in the manifest keeps its value; of a previous
\* list, each KEY=VALUE string under a key not in the manifest is kept with
\* its value (the last one for a repeated key), and the items that are not
\* KEY=VALUE strings are dropped; the environment holds nothing else.
C10_MergeKeepsKeyValueEntries ==
    (rwCount = 1 /\ HasServices(rwPrev) /\ HasEnvEntries) =>
        \A n \in Keys(rwFile.yval.services.yval) :
            LET old == Get(Lookup(rwPrev.yval.services.yval, n).yval.environment)
                new == Lookup(rwFile.yval.services.yval, n).yval.environment
                kv == IF old.ytag = "list" THEN KeyValueItems(old.yval) ELSE {}
                last == {i \in kv : \A j \in kv :
                            ListEntryKey(old.yval[j]) = ListEntryKey(old.yval[i]) => j <= i}
            IN Lookup(rwFile.yval.services.yval, n).ytag = "service" =>
                /\ new.ytag = "dict"
                /\ \A k \in Keys(rwCfg.env.yval) :
                      HasKey(new.yval, k) /\ Lookup(new.yval, k) = EnvExpr(k)
                /\ old.ytag = "dict" =>
                      /\ \A k \in Keys(old.yval) \ Keys(rwCfg.env.yval) :
                            HasKey(new.yval, k) /\ Lookup(new.yval, k) = Lookup(old.yval, k)
                      /\ Keys(new.yval) = Keys(old.yval) \cup Keys(rwCfg.env.yval)
                /\ old.ytag = "list" =>
                      /\ \A i \in last :
                            ListEntryKey(old.yval[i]) \notin Keys(rwCfg.env.yval) =>
                                /\ HasKey(new.yval, ListEntryKey(old.yval[i]))
                                /\ Lookup(new.yval, ListEntryKey(old.yval[i])) =
                                      StrV(SplitFirst(old.yval[i].yval, "=")[2])
                      /\ Keys(new.yval) =
                            {ListEntryKey(old.yval[i]) : i \in kv} \cup Keys(rwCfg.env.yval)
                /\ old.ytag \notin {"dict", "list"} => Keys(new.yval) = Keys(rwCfg.env.yval)

\* a list-form environment with an entry under a key the manifest does
\* not have was merged, and the entry is in the resulting mapping
C10_Witness ==
    /\ rwCount = 1 /\ HasServices(rwPrev) /\ HasEnvEntries
    /\ \E n \in Keys(rwFile.yval.services.yval) :
          /\ Lookup(rwFile.yval.services.yval, n).ytag = "service"
          /\ Lookup(rwPrev.yval.services.yval, n).yval.environment.ytag = "list"
          /\ HasKey(Lookup(rwFile.yval.services.yval, n).yval.environment.yval, s_OTHER)
          /\ HasKey(Lookup(rwFile.yval.services.yval, n).yval.environment.yval, s_KEY)
          /\ s_OTHER \notin Keys(rwCfg.env.yval)

\* "${PREFIX_<role><i>_SRC}:${PREFIX_<role><i>_DST}" for i = 1..n, in order
ExpectedExprs(role, n) ==
    [i \in 1..n |->
        StrV(<<"$", "{">> \o to_var_prefix(rwName) \o <<"_">> \o role \o Digits(i)
             \o <<"_", "S", "R", "C", "}", ":", "$", "{">> \o to_var_prefix(rwName)
             \o <<"_">> \o role \o Digits(i) \o <<"_", "D", "S", "T", "}">>)]

\* the number of ports / volumes the manifest yields
ParsedCount(parsed) == IF parsed.ok THEN Len(parsed.val) ELSE 0

\* C11 as stated: after a rewrite, every remaining service has as ports
\* exactly the n expressions ${PREFIX_PORTi_SRC}:${PREFIX_PORTi_DST} in
\* order when the manifest yields n >= 1 ports, and the ports it had before
\* when it yields none; and the same for the volumes with the VOLi
\* expressions.
C11_EveryServiceRewritten ==
    (rwCount >= 1 /\ HasServices(rwPrev)) =>
        \A n \in Keys(rwFile.yval.services.yval) :
            LET old == Lookup(rwPrev.yval.services.yval, n)
                new == Lookup(rwFile.yval.services.yval, n)
                np == ParsedCount(parse_ports(rwCfg))
                nv == ParsedCount(parse_volumes(rwCfg))
            IN /\ np >= 1 =>
                    /\ new.ytag = "service"
                    /\ new.yval.ports = ListV(ExpectedExprs(<<"P", "O", "R", "T">>, np))
               /\ nv >= 1 =>
                    /\ new.ytag = "service"
                    /\ new.yval.volumes = ListV(ExpectedExprs(<<"V", "O", "L">>, nv))
               /\ (np = 0 /\ new.ytag = "service") => new.yval.ports = old.yval.ports
               /\ (nv = 0 /\ new.ytag = "service") => new.yval.volumes = old.yval.volumes
               /\ (np = 0 /\ nv = 0 /\ new.ytag # "service") => new = old

\* C11, amended: after a rewrite, in every remaining service that is a
\* mapping, the ports are exactly the n expressions ${PREFIX_PORTi_SRC}:${PREFIX_PORTi_DST}
\* in order when the manifest yields n >= 1 ports, and are the ports the
\* service had before when it yields none; and the same for the volumes
\* with the VOLi expressions, independently of the ports.  A remaining
\* service that is not a mapping is left as it was.
C11_PortsAndVolumesReplacedWholesale ==
    (rwCount >= 1 /\ HasServices(rwPrev)) =>
        \A n \in Keys(rwFile.yval.services.yval) :
            LET old == Lookup(rwPrev.yval.services.yval, n)
                new == Lookup(rwFile.yval.services.yval, n)
                np == ParsedCount(parse_ports(rwCfg))
                nv == ParsedCount(parse_volumes(rwCfg))
            IN IF new.ytag = "service"
               THEN /\ new.yval.ports =
                         IF np >= 1 THEN ListV(ExpectedExprs(<<"P", "O", "R", "T">>, np))
                         ELSE old.yval.ports
                    /\ new.yval.volumes =
                         IF nv >= 1 THEN ListV(ExpectedExprs(<<"V", "O", "L">>, nv))
                         ELSE old.yval.volumes
               ELSE new = old

\* a service that had one port and one volume was rewritten with a manifest
\* of two volumes and no parsed port: two volume expressions, the old port
C11_Witness ==
    /\ rwCount = 1 /\ HasServices(rwPrev)
    /\ ParsedCount(parse_ports(rwCfg)) = 0
    /\ ParsedCount(parse_volumes(rwCfg)) = 2
    /\ \E n \in Keys(rwFile.yval.services.yval) :
          /\ Lookup(rwFile.yval.services.yval, n).ytag = "service"
          /\ Lookup(rwPrev.yval.services.yval, n).yval.volumes.ytag = "list"
          /\ Len(Lookup(rwPrev.yval.services.yval, n).yval.volumes.yval) = 1
          /\ Len(Lookup(rwFile.yval.services.yval, n).yval.volumes.yval) = 2
          /\ Lookup(rwFile.yval.services.yval, n).yval.ports =
                ListV(<<StrV(<<"1", ":", "1">>)>>)

\* C12: a rewrite leaves the top-level keys other than services as they
\* were, and in every remaining service the keys other than ports, volumes,
\* environment and image; a service that is not a mapping is left as it
\* was; the image of a service differs from the one before only when the
\* manifest has a non-empty image string, and is then that string stripped.
C12_OtherKeysPassThrough ==
    rwCount >= 1 =>
        IF ~HasServices(rwPrev) THEN rwFile = rwPrev
        ELSE /\ rwFile.ytag = "compose"
             /\ rwFile.yval.version = rwPrev.yval.version
             /\ \A n \in Keys(rwFile.yval.services.yval) :
                   LET old == Lookup(rwPrev.yval.services.yval, n)
                       new == Lookup(rwFile.yval.services.yval, n)
                   IN IF old.ytag # "service" THEN new = old
                      ELSE /\ new.ytag = "service"
                           /\ new.yval.build = old.yval.build
                           /\ new.yval.image # old.yval.image =>
                                 /\ Get(rwCfg.image).ytag = "str"
                                 /\ rwCfg.image.yval # <<>>
                                 /\ new.yval.image = StrV(<<"i", "m", "g">>)

\* a service with a build key and an image was rewritten with a manifest
\* that has an image: the image is the manifest's, the build key is there
C12_Witness ==
    /\ rwCount = 1 /\ HasServices(rwPrev)
    /\ rwFile.yval.version = StrV(<<"3">>)
    /\ \E n \in Keys(rwFile.yval.services.yval) :
          /\ Lookup(rwPrev.yval.services.yval, n).ytag = "service"
          /\ Lookup(rwPrev.yval.services.yval, n).yval.image = StrV(<<"o", "l", "d">>)
          /\ Lookup(rwFile.yval.services.yval, n).yval.image = StrV(<<"i", "m", "g">>)
          /\ Lookup(rwFile.yval.services.yval, n).yval.build = StrV(<<".">>)


(***************************************************************************)
(* SpecCmd: import_honeypot and the commands of main over two honeypots.   *)
(*                                                                         *)
(* A working directory docker/<id>/ is [exists, files], files being the    *)
(* set of <<name, content>>.  The manifests carry no name and no           *)
(* template_dir key, so a manifest is found by its file name only and the  *)
(* template is template/docker/<id>/.                                      *)
(***************************************************************************)
HoneypotIds == <<"a", "b">>

Opaque(tag) == [ytag |-> "opaque", yval |-> tag]

EnvFile(lines) == [ytag |-> "envfile", yval |-> lines]

NoDir == [exists |-> FALSE, files |-> {}]

\* a working directory left by an earlier import
ImportedOld ==
    [exists |-> TRUE,
     files |-> {<<"Dockerfile", Opaque("old")>>, <<"docker-compose.yml", Opaque("old")>>,
                <<".env", Opaque("old")>>, <<"notes.txt", Opaque("old")>>}]

\* template/docker/<id>/docker-compose.yml.  The template of the first
\* honeypot refers to variables of its own: ${DATA} in a volume and ${TZ} in
\* the environment; the template of the others holds no reference.
TemplateCompose(id) ==
    IF id = Head(HoneypotIds)
    THEN Compose(DictV(<< <<s_web,
             [Service(ListV(<<StrV(<<"1", ":", "1">>)>>),
                      ListV(<<StrV(<<"K", "E", "Y", "=", "o", "l", "d">>),
                              StrV(<<"T", "Z", "=", "$", "{", "T", "Z", "}">>)>>), Absent)
                 EXCEPT !.yval.volumes =
                     ListV(<<StrV(<<"$", "{", "D", "A", "T", "A", "}", ":", "/", "d", "a", "t", "a">>)>>)]>> >>))
    ELSE Compose(DictV(<< <<s_web,
             Service(ListV(<<StrV(<<"1", ":", "1">>)>>),
                     ListV(<<StrV(<<"K", "E", "Y", "=", "o", "l", "d">>)>>), Absent)>> >>))

TemplateFiles(id) ==
    {<<"Dockerfile", Opaque("template")>>, <<"docker-compose.yml", TemplateCompose(id)>>}

CmdManifest(id, enabled, ports, volumes, env) ==
    [ytag |-> "manifest",
     yval |-> [name |-> Absent, enabled |-> BoolV(enabled), ports |-> ports,
            volumes |-> volumes, env |-> env, service |-> Absent,
            services |-> Absent, image |-> Absent]]

GoodPorts == ListV(<<StrV(<<"2", "2", "2", "2", ":", "2", "2">>)>>)

GoodVolumes(id) == ListV(<<StrV(<<".", "/", "v", "o", "l", "/">> \o <<id>> \o <<":", "/", "l", "o", "g">>)>>)

GoodEnv == DictV(<< <<s_KEY, StrV(<<"v">>)>> >>)

\* honeypots/<id>.yml: missing, well-formed (enabled or not), with a
\* malformed ports, volumes or env field, or with two ports and two env keys
CmdManifests(id) ==
    {NoFile,
     CmdManifest(id, TRUE, GoodPorts, GoodVolumes(id), GoodEnv),
     CmdManifest(id, FALSE, GoodPorts, GoodVolumes(id), GoodEnv),
     CmdManifest(id, TRUE, ListV(<<StrV(<<"8", "0">>)>>), GoodVolumes(id), GoodEnv)}
    \cup (IF id # Head(HoneypotIds) THEN {}
          ELSE {CmdManifest(id, TRUE, GoodPorts, ListV(<<StrV(<<"n", "o", "v", "o", "l", "u", "m", "e">>)>>), GoodEnv),
                CmdManifest(id, TRUE, GoodPorts, GoodVolumes(id), ListV(<<StrV(<<"K", "E", "Y", "=", "v">>)>>)),
                CmdManifest(id, TRUE,
                            ListV(<<StrV(<<"8", "0", ":", "8", "0">>), StrV(<<" ", "5", "3", ":", "5", "3">>)>>),
                            Absent,
                            DictV(<< <<s_a_b, IntV(1)>>, <<s_KEY, Null>> >>))})

\* the data directories: DATA_DIR exists, each honeypot has data or not
CmdFs ==
    {f \in InitialFs :
        /\ f[<<"d">>].kind = "dir"
        /\ f[<<"d", "a">>].kind \in {"dir", "none"}
        /\ f[<<"d", "b">>].kind = "dir"
        /\ f[<<"d", "b", "a">>].kind = "none"}

World(w, h, f, r) == [work |-> w, hostDirs |-> h, fs |-> f, running |-> r]

has_compose(W, t) == \E f \in W.work[t].files : f[1] = "docker-compose.yml"

\* data.get("enabled") is True, for a manifest that exists
is_honeypot_enabled(t) ==
    /\ manifests[t].ytag = "manifest"
    /\ Get(manifests[t].yval.enabled).ytag = "bool"
    /\ manifests[t].yval.enabled.yval

list_all_enabled_honeypot_ids == SelectSeq(HoneypotIds, is_honeypot_enabled)

list_enabled_honeypot_ids(W) ==
    SelectSeq(HoneypotIds, LAMBDA t : is_honeypot_enabled(t) /\ W.work[t].exists)

list_imported_honeypot_ids(W) ==
    SelectSeq(HoneypotIds, LAMBDA t : W.work[t].exists /\ has_compose(W, t))

\* the lines numbered from 0, as enumerate(...) without start=1 gives them
pair_lines_from_zero(prefix, role, pairs) ==
    [k \in 1..(2 * Len(pairs)) |->
        LET i == (k + 1) \div 2
        IN prefix \o <<"_">> \o role \o Digits(i - 1) \o
           (IF k % 2 = 1 THEN <<"_", "S", "R", "C", "=">> \o pairs[i][1]
            ELSE <<"_", "D", "S", "T", "=">> \o pairs[i][2])]

\* the lines PREFIX_<role><i>_SRC=... and PREFIX_<role><i>_DST=...
pair_lines(prefix, role, pairs) ==
    [k \in 1..(2 * Len(pairs)) |->
        LET i == (k + 1) \div 2
        IN prefix \o <<"_">> \o role \o Digits(i) \o
           (IF k % 2 = 1 THEN <<"_", "S", "R", "C", "=">> \o pairs[i][1]
            ELSE <<"_", "D", "S", "T", "=">> \o pairs[i][2])]

\* generate_env_file: the lines of .env, or the ValueError
generate_env_file(honeypot_name, config) ==
    LET prefix == to_var_prefix(honeypot_name)
        pp == parse_ports(config)
        vp == parse_volumes(config)
        ep == parse_env(config)
    IN IF ~pp.ok \/ ~vp.ok \/ ~ep.ok THEN Raised
       ELSE Returned(
              <<<<"#", " ", "A", "u", "t", "o", "-", "g", "e", "n", "e", "r", "a", "t", "e", "d", " ", "b", "y", " ", "m", "a", "n", "a", "g", "e", ".", "p", "y", " ", "f", "o", "r", " ">> \o honeypot_name>>
              \o pair_lines(prefix, <<"P", "O", "R", "T">>, pp.val)
              \o pair_lines(prefix, <<"V", "O", "L">>,
                            [i \in 1..Len(vp.val) |->
                                <<normalize_host_path(vp.val[i][1]), vp.val[i][2]>>])
              \o [i \in 1..Len(ep.val) |->
                    prefix \o <<"_">> \o SanitizeKey(ep.val[i][1]) \o <<"=">>
                    \o ep.val[i][2]])

\* ensure_volume_directories: the host directories it creates
ensure_volume_directories(config) ==
    LET vp == parse_volumes(config)
    IN IF ~vp.ok THEN {}
       ELSE {normalize_host_path(vp.val[i][1]) : i \in
                {j \in 1..Len(vp.val) :
                    HasChar(normalize_host_path(vp.val[j][1]), "/")}}

\* docker-compose.yml after a rewrite that raised: "load" is an exception
\* of yaml.safe_load, which leaves the file as copied, "dump" an exception
\* under compose_path.open("w"), which has truncated it
compose_after_rewrite(raises, t, name, cfg) ==
    IF raises = "load" THEN TemplateCompose(t)
    ELSE IF raises = "dump" THEN Opaque("truncated")
    ELSE rewrite_compose_with_env(TemplateCompose(t), name, cfg)

\* an import that lets the exception of the rewrite escape
import_honeypot_rewrite_fatal(W, t, force, rewrite_raises) ==
    IF manifests[t].ytag # "manifest" THEN [ok |-> FALSE, w |-> W, warned |-> FALSE]
    ELSE IF t \notin templates THEN [ok |-> FALSE, w |-> W, warned |-> FALSE]
    ELSE IF W.work[t].exists /\ ~force THEN [ok |-> FALSE, w |-> W, warned |-> FALSE]
    ELSE LET cfg == manifests[t].yval
             name == resolved_name(cfg, <<t>>)
             copied == [W EXCEPT
                          !.work[t] = [exists |-> TRUE, files |-> TemplateFiles(t)],
                          !.hostDirs = @ \cup ensure_volume_directories(cfg)]
             env == generate_env_file(name, cfg)
         IN IF ~env.ok THEN [ok |-> FALSE, w |-> copied, warned |-> FALSE]
            ELSE [ok |-> rewrite_raises = "no",
                  warned |-> rewrite_raises # "no",
                  w |-> [copied EXCEPT !.work[t].files =
                           {<<"Dockerfile", Opaque("template")>>,
                            <<".env", EnvFile(env.val)>>,
                            <<"docker-compose.yml",
                              compose_after_rewrite(rewrite_raises, t, name, cfg)>>}]]

\* an import that prepares the destination before it looks for the template
import_honeypot_destination_first(W, t, force, rewrite_raises) ==
    IF manifests[t].ytag # "manifest" THEN [ok |-> FALSE, w |-> W, warned |-> FALSE]
    ELSE IF W.work[t].exists /\ ~force THEN [ok |-> FALSE, w |-> W, warned |-> FALSE]
    ELSE IF t \notin templates
    THEN [ok |-> FALSE, warned |-> FALSE,
          w |-> [W EXCEPT !.work[t] = [exists |-> TRUE, files |-> {}]]]
    ELSE LET cfg == manifests[t].yval
             name == resolved_name(cfg, <<t>>)
             copied == [W EXCEPT
                          !.work[t] = [exists |-> TRUE, files |-> TemplateFiles(t)],
                          !.hostDirs = @ \cup ensure_volume_directories(cfg)]
             env == generate_env_file(name, cfg)
         IN IF ~env.ok THEN [ok |-> FALSE, w |-> copied, warned |-> FALSE]
            ELSE [ok |-> TRUE,
                  warned |-> rewrite_raises # "no",
                  w |-> [copied EXCEPT !.work[t].files =
                           {<<"Dockerfile", Opaque("template")>>,
                            <<".env", EnvFile(env.val)>>,
                            <<"docker-compose.yml",
                              compose_after_rewrite(rewrite_raises, t, name, cfg)>>}]]

\* import_honeypot(honeypot_id, force), rewrite_raises telling whether and
\* where rewrite_compose_with_env raises:
\* [ok |-> returned normally, w |-> world, warned |-> the rewrite raised]
import_honeypot_rewrite(W, t, force, rewrite_raises) ==
    IF manifests[t].ytag # "manifest" THEN [ok |-> FALSE, w |-> W, warned |-> FALSE]
    ELSE IF t \notin templates THEN [ok |-> FALSE, w |-> W, warned |-> FALSE]
    ELSE IF W.work[t].exists /\ ~force THEN [ok |-> FALSE, w |-> W, warned |-> FALSE]
    ELSE LET cfg == manifests[t].yval
             name == resolved_name(cfg, <<t>>)
             copied == [W EXCEPT
                          !.work[t] = [exists |-> TRUE, files |-> TemplateFiles(t)],
                          !.hostDirs = @ \cup ensure_volume_directories(cfg)]
             env == generate_env_file(name, cfg)
         IN IF ~env.ok THEN [ok |-> FALSE, w |-> copied, warned |-> FALSE]
            ELSE [ok |-> TRUE,
                  warned |-> rewrite_raises # "no",
                  w |-> [copied EXCEPT !.work[t].files =
                           {<<"Dockerfile", Opaque("template")>>,
                            <<".env", EnvFile(env.val)>>,
                            <<"docker-compose.yml",
                              compose_after_rewrite(rewrite_raises, t, name, cfg)>>}]]

\* import_honeypot(honeypot_id, force) when the rewrite does not raise
import_honeypot(W, t, force) == import_honeypot_rewrite(W, t, force, "no")

\* up_honeypot(honeypot_id, force); failing: the ids whose compose command
\* does not succeed
up_honeypot(W, t, force, failing) ==
    IF ~W.work[t].exists THEN [ok |-> FALSE, w |-> W, launched |-> FALSE]
    ELSE IF ~force /\ ~is_honeypot_enabled(t)
    THEN [ok |-> FALSE, w |-> W, launched |-> FALSE]
    ELSE IF ~has_compose(W, t) THEN [ok |-> FALSE, w |-> W, launched |-> FALSE]
    ELSE IF t \in failing THEN [ok |-> FALSE, w |-> W, launched |-> TRUE]
    ELSE [ok |-> TRUE, w |-> [W EXCEPT !.running = @ \cup {t}], launched |-> TRUE]

\* down_honeypot(honeypot_id)
down_honeypot(W, t, failing) ==
    IF ~W.work[t].exists THEN [ok |-> TRUE, w |-> W, launched |-> FALSE]
    ELSE IF ~has_compose(W, t) THEN [ok |-> FALSE, w |-> W, launched |-> FALSE]
    ELSE IF t \in failing THEN [ok |-> FALSE, w |-> W, launched |-> TRUE]
    ELSE [ok |-> TRUE, w |-> [W EXCEPT !.running = @ \ {t}], launched |-> TRUE]

\* remove_honeypot(honeypot_id)
remove_honeypot(W, t) == [W EXCEPT !.work[t] = NoDir]

Outcome(ok) == IF ok THEN "ok" ELSE "raised"

RECURSIVE import_each(_, _, _, _)
\* for t in ids: try: import_honeypot(t, force) / except Exception: continue
import_each(W, ids, force, log) ==
    IF ids = <<>> THEN [w |-> W, log |-> log, raised |-> FALSE]
    ELSE With(import_honeypot(W, Head(ids), force),
              LAMBDA r : import_each(r.w, Tail(ids), force,
                            Append(log, <<"import", Head(ids), Outcome(r.ok)>>)))

RECURSIVE up_each(_, _, _, _, _)
\* for t in ids: up_honeypot(t, force=False); guarded: the call stands in
\* a try whose except continues with the next id; the log holds
\* <<"compose", t, "up">> for each launch of compose up
up_each(W, ids, failing, guarded, log) ==
    IF ids = <<>> THEN [w |-> W, log |-> log, raised |-> FALSE]
    ELSE With(up_honeypot(W, Head(ids), FALSE, failing),
              LAMBDA r :
                  LET log0 == IF r.launched THEN Append(log, <<"compose", Head(ids), "up">>)
                              ELSE log
                      log1 == Append(log0, <<"up", Head(ids), Outcome(r.ok)>>)
                  IN IF ~r.ok /\ ~guarded
                     THEN [w |-> r.w, log |-> log1, raised |-> TRUE]
                     ELSE up_each(r.w, Tail(ids), failing, guarded, log1))

RECURSIVE down_each(_, _, _, _)
\* for t in honeypot_ids: down_honeypot(t)
down_each(W, ids, failing, log) ==
    IF ids = <<>> THEN [w |-> W, log |-> log, raised |-> FALSE]
    ELSE With(down_honeypot(W, Head(ids), failing),
              LAMBDA r :
                  LET log1 == Append(log, <<"down", Head(ids), Outcome(r.ok)>>)
                  IN IF ~r.ok THEN [w |-> r.w, log |-> log1, raised |-> TRUE]
                     ELSE down_each(r.w, Tail(ids), failing, log1))

RECURSIVE clean_each_data_first(_, _, _, _, _)
\* a loop that removes the data before it looks at the outcome of the stop
clean_each_data_first(W, ids, remove_data_all, failing, log) ==
    IF ids = <<>> THEN [w |-> W, log |-> log, raised |-> FALSE]
    ELSE With(<<down_honeypot(W, Head(ids), failing),
                remove_honeypot_data(W.fs, <<Head(ids)>>)>>,
              LAMBDA r :
                  LET t == Head(ids)
                      d == r[1]
                      data == r[2]
                      log1 == Append(log, <<"down", t, Outcome(d.ok)>>)
                      W2 == IF remove_data_all THEN [d.w EXCEPT !.fs = data.fs]
                            ELSE d.w
                      log2 == IF remove_data_all
                              THEN Append(log1, <<"data", t, Outcome(data.ok)>>)
                              ELSE log1
                  IN IF ~d.ok
                     THEN clean_each_data_first(W2, Tail(ids), remove_data_all, failing, log2)
                     ELSE With(remove_honeypot(W2, t),
                               LAMBDA W3 : clean_each_data_first(W3, Tail(ids),
                                              remove_data_all, failing,
                                              Append(log2, <<"remove", t, "ok">>))))

RECURSIVE clean_each(_, _, _, _, _)
\* for t in imported_ids: try: down_honeypot; remove_honeypot_data if
\* confirmed; remove_honeypot / except Exception: continue
clean_each(W, ids, remove_data_all, failing, log) ==
    IF ids = <<>> THEN [w |-> W, log |-> log, raised |-> FALSE]
    ELSE With(<<down_honeypot(W, Head(ids), failing),
                remove_honeypot_data(W.fs, <<Head(ids)>>)>>,
              LAMBDA r :
                  LET t == Head(ids)
                      d == r[1]
                      data == r[2]
                      log1 == Append(log, <<"down", t, Outcome(d.ok)>>)
                      W2 == IF remove_data_all THEN [d.w EXCEPT !.fs = data.fs]
                            ELSE d.w
                      log2 == IF remove_data_all
                              THEN Append(log1, <<"data", t, Outcome(data.ok)>>)
                              ELSE log1
                  IN IF ~d.ok
                     THEN clean_each(d.w, Tail(ids), remove_data_all, failing, log1)
                     ELSE With(remove_honeypot(W2, t),
                               LAMBDA W3 : clean_each(W3, Tail(ids), remove_data_all,
                                              failing,
                                              Append(log2, <<"remove", t, "ok">>))))

RECURSIVE data_each(_, _, _)
\* for d in sorted(p for p in DATA_DIR.iterdir() if p.is_dir()):
\*     remove_honeypot_data(d.name)
data_each(W, ids, log) ==
    IF ids = <<>> THEN [w |-> W, log |-> log, raised |-> FALSE]
    ELSE With(remove_honeypot_data(W.fs, <<Head(ids)>>),
              LAMBDA data :
                  With([W EXCEPT !.fs = data.fs],
                       LAMBDA W2 : data_each(W2, Tail(ids),
                           Append(log, <<"data", Head(ids), Outcome(data.ok)>>))))

\* the state after a call: r is [w, log, raised], M the manifests after it.
\* cmdIn.name is the function called; cmdExit is the int it returned, or 1
\* when it raised, or the exit status of the process for main
FinishWith(cmd, r, exit, M) ==
    /\ cmdPc = "idle"
    /\ cmdPc' = "done"
    /\ cmdIn' = cmd
    /\ cmdLog' = r.log
    /\ cmdExit' = exit
    /\ work' = r.w.work
    /\ hostDirs' = r.w.hostDirs
    /\ fs' = r.w.fs
    /\ running' = r.w.running
    /\ workBefore' = work
    /\ hostBefore' = hostDirs
    /\ manifests' = M
    /\ UNCHANGED templates
    /\ UNCHANGED <<fsBefore, rmPc, rmId, rmResult, runVars, rwVars, envVars, cpVars, prVars>>

Finish(cmd, r, exit) == FinishWith(cmd, r, exit, manifests)

Now == World(work, hostDirs, fs, running)

Nothing == [w |-> Now, log |-> <<>>, raised |-> FALSE]

\* import_honeypot(t, force), called directly
CallImportHoneypot(t, force, rewrite_raises) ==
    /\ cmdPc = "idle"
    /\ LET cmd == [name |-> "import_honeypot", id |-> t, force |-> force,
                   ids |-> <<t>>, rewrite_raises |-> rewrite_raises]
       IN \E r \in {import_honeypot_rewrite(Now, t, force, rewrite_raises)} :
             Finish(cmd,
                    [w |-> r.w,
                     log |-> <<<<"import", t, Outcome(r.ok)>>>> \o
                             (IF r.warned THEN <<<<"rewrite", t, "raised">>>>
                              ELSE <<>>),
                     raised |-> ~r.ok],
                    IF r.ok THEN 0 ELSE 1)

\* set_honeypot_enabled(t, enabled), called directly: FileNotFoundError
\* without a manifest, else the manifest is written back with the flag
CallSetHoneypotEnabled(t, enabled) ==
    /\ cmdPc = "idle"
    /\ LET cmd == [name |-> "set_honeypot_enabled", id |-> t, enabled |-> enabled,
                   ids |-> <<t>>]
       IN IF manifests[t].ytag # "manifest"
          THEN Finish(cmd, [Nothing EXCEPT !.raised = TRUE], 1)
          ELSE FinishWith(cmd, Nothing, 0,
                          [manifests EXCEPT ![t].yval.enabled = BoolV(enabled)])

\* down_honeypot(t), called directly
CallDownHoneypot(t, failing) ==
    /\ cmdPc = "idle"
    /\ \E r \in {down_each(Now, <<t>>, failing, <<>>)} :
          Finish([name |-> "down_honeypot", id |-> t, ids |-> <<t>>], r,
                 IF r.raised THEN 1 ELSE 0)

\* the body of up --all [--update], which up_all_honeypots and the up branch
\* of main share: [w, log, raised, ids]
up_all_honeypots(W, update, always_import, failing) ==
    IF always_import
    THEN LET ids == list_all_enabled_honeypot_ids
         IN With(import_each(W, ids, TRUE, <<>>),
                 LAMBDA imported :
                     With(up_each(imported.w, ids, failing, TRUE, imported.log),
                          LAMBDA r : [w |-> r.w, log |-> r.log, raised |-> FALSE,
                                      ids |-> ids]))
    ELSE With(IF update
              THEN import_each(W, list_imported_honeypot_ids(W), TRUE, <<>>)
              ELSE [w |-> W, log |-> <<>>, raised |-> FALSE],
              LAMBDA updated :
                  With(up_each(updated.w, list_enabled_honeypot_ids(updated.w),
                               failing, FALSE, updated.log),
                       LAMBDA r : [w |-> r.w, log |-> r.log, raised |-> r.raised,
                                   ids |-> list_enabled_honeypot_ids(updated.w)]))

\* up_all_honeypots(update), called directly
CallUpAllHoneypots(update, always_import, failing) ==
    /\ cmdPc = "idle"
    /\ \E r \in {up_all_honeypots(Now, update, always_import, failing)} :
          Finish([name |-> "up_all_honeypots", update |-> update,
                  ALWAYS_IMPORT |-> always_import, ids |-> r.ids],
                 r, IF r.raised THEN 1 ELSE 0)

\* the body of clean --all [--data], which clean_all_honeypots and the
\* clean branch of main share; reply: the answer to the data-removal prompt
clean_all_honeypots(W, data, reply, failing) ==
    LET imported_ids == list_imported_honeypot_ids(W)
        remove_data_all == data /\ reply
        dirs == SelectSeq(HoneypotIds, LAMBDA t : Kind(W.fs, <<"d", t>>) = "dir")
    IN IF imported_ids # <<>>
       THEN clean_each(W, imported_ids, remove_data_all, failing, <<>>)
       ELSE IF remove_data_all THEN data_each(W, dirs, <<>>)
       ELSE [w |-> W, log |-> <<>>, raised |-> FALSE]

\* clean_all_honeypots(remove_data), called directly
CallCleanAllHoneypots(data, reply, failing) ==
    /\ cmdPc = "idle"
    /\ \E r \in {clean_all_honeypots(Now, data, reply, failing)} :
          Finish([name |-> "clean_all_honeypots", data |-> data, reply |-> reply,
                  ids |-> list_imported_honeypot_ids(Now)], r, 0)

\* the calls of up_honeypot(t, force) in the log, and its outcome
up_logged(W, t, force, failing, log) ==
    With(up_honeypot(W, t, force, failing),
         LAMBDA r :
             [w |-> r.w, raised |-> ~r.ok,
              log |-> (IF r.launched THEN Append(log, <<"compose", t, "up">>) ELSE log)
                      \o <<<<"up", t, Outcome(r.ok)>>>>])

\* the calls of import_honeypot(t, force) in the log, and its outcome
import_logged(W, t, force, log) ==
    With(import_honeypot(W, t, force),
         LAMBDA r : [w |-> r.w, raised |-> ~r.ok,
                     log |-> Append(log, <<"import", t, Outcome(r.ok)>>)])

\* up_honeypot(t, force) raises FileNotFoundError: the working directory or
\* its docker-compose.yml is missing
up_file_not_found(W, t, force) ==
    \/ ~W.work[t].exists
    \/ (force \/ is_honeypot_enabled(t)) /\ ~has_compose(W, t)

\* up_single_honeypot(honeypot_id, force, update); confirm: the answer to
\* "Import now?"; the result is [w, log, raised], raised: exit code 1
up_single_honeypot(W, t, force, update, always_import, confirm, failing) ==
    IF always_import
    THEN IF manifests[t].ytag # "manifest" THEN [w |-> W, log |-> <<>>, raised |-> TRUE]
         ELSE IF ~is_honeypot_enabled(t) /\ ~force
         THEN [w |-> W, log |-> <<>>, raised |-> TRUE]
         ELSE With(import_logged(W, t, TRUE, <<>>),
                   LAMBDA i : IF i.raised THEN i
                              ELSE up_logged(i.w, t, force, failing, i.log))
    ELSE With(IF update /\ W.work[t].exists THEN import_logged(W, t, TRUE, <<>>)
              ELSE [w |-> W, log |-> <<>>, raised |-> FALSE],
              LAMBDA u :
                  IF u.raised THEN u
                  ELSE IF ~up_file_not_found(u.w, t, force)
                  THEN up_logged(u.w, t, force, failing, u.log)
                  ELSE With(up_logged(u.w, t, force, failing, u.log),
                            LAMBDA first :
                                IF manifests[t].ytag # "manifest" THEN first
                                ELSE IF ~confirm THEN [first EXCEPT !.raised = FALSE]
                                ELSE With(import_logged(first.w, t, FALSE, first.log),
                                          LAMBDA i :
                                              IF i.raised THEN i
                                              ELSE up_logged(i.w, t, force, failing,
                                                             i.log))))

\* up_single_honeypot(t, force, update), called directly
CallUpSingleHoneypot(t, force, update, always_import, confirm, failing) ==
    /\ cmdPc = "idle"
    /\ \E r \in {up_single_honeypot(Now, t, force, update, always_import, confirm,
                                    failing)} :
          Finish([name |-> "up_single_honeypot", id |-> t, force |-> force,
                  update |-> update, ALWAYS_IMPORT |-> always_import,
                  confirm |-> confirm, ids |-> <<t>>],
                 r, IF r.raised THEN 1 ELSE 0)

\* a clean that removes the data whatever the answer to the prompt
CallCleanSingleHoneypotUnconfirmed(t, data, reply, failing) ==
    /\ cmdPc = "idle"
    /\ \E r \in {clean_each(Now, <<t>>, data, failing, <<>>)} :
          Finish([name |-> "clean_single_honeypot", id |-> t, data |-> data,
                  reply |-> reply, ids |-> <<t>>],
                 r, IF r.log[1][3] = "raised" THEN 1 ELSE 0)

\* clean_single_honeypot(t, remove_data), called directly: its body is one
\* round of the loop of clean_all_honeypots, and an exception ends it with
\* exit code 1; reply: the answer to the data-removal prompt
CallCleanSingleHoneypot(t, data, reply, failing) ==
    /\ cmdPc = "idle"
    /\ \E r \in {clean_each(Now, <<t>>, data /\ reply, failing, <<>>)} :
          Finish([name |-> "clean_single_honeypot", id |-> t, data |-> data,
                  reply |-> reply, ids |-> <<t>>],
                 r, IF r.log[1][3] = "raised" THEN 1 ELSE 0)

\* the options of a command line
Flag(given, flag) == IF given THEN <<flag>> ELSE <<>>

\* parser.parse_args(argv) ends the process with status 2: without
\* ALWAYS_IMPORT = False the parser has no import and update commands and
\* no --update option
ParserRejects(argv, always_import) ==
    always_import /\ (argv[1] \in {"import", "update"} \/ "--update" \in Range(argv))

\* the command lines that name one honeypot
SingleArgvs ==
    {<<c, t>> \o f : c \in {"import", "up", "down", "clean", "enable", "disable"},
                     t \in Range(HoneypotIds),
                     f \in {<<>>, <<"--force">>, <<"--update">>, <<"--data">>}}

\* the options that the parser knows for a command
KnownFlags(command) ==
    CASE command = "import" -> {<<>>, <<"--force">>}
      [] command = "up" -> {<<>>, <<"--force">>, <<"--update">>}
      [] command = "clean" -> {<<>>, <<"--data">>}
      [] OTHER -> {<<>>}

\* main(argv) for a command line that names one honeypot: the parser stores
\* the name as args.tool and main reads args.honeypot, so that the branch of
\* the command ends with an AttributeError before it has called anything
\* (enable and disable raise it again in their handler: exit status 1)
MainSingle(argv, always_import) ==
    /\ cmdPc = "idle"
    /\ SubSeq(argv, 3, Len(argv)) \in KnownFlags(argv[1])
    /\ Finish([name |-> "main", argv |-> argv, ALWAYS_IMPORT |-> always_import,
               ids |-> <<>>],
              Nothing, IF ParserRejects(argv, always_import) THEN 2 ELSE 1)

\* main(["import", "--all"] + ["--force"])
MainImportAll(force, always_import) ==
    /\ cmdPc = "idle"
    /\ LET ids == list_all_enabled_honeypot_ids
           cmd == [name |-> "main",
                   argv |-> <<"import", "--all">> \o Flag(force, "--force"),
                   ALWAYS_IMPORT |-> always_import, ids |-> ids, force |-> force]
       IN IF ParserRejects(cmd.argv, always_import)
          THEN Finish([cmd EXCEPT !.ids = <<>>], Nothing, 2)
          ELSE \E r \in {import_each(Now, ids, force, <<>>)} : Finish(cmd, r, 0)

\* main(["update"])
MainUpdate(always_import) ==
    /\ cmdPc = "idle"
    /\ LET ids == list_imported_honeypot_ids(Now)
           cmd == [name |-> "main", argv |-> <<"update">>,
                   ALWAYS_IMPORT |-> always_import, ids |-> ids]
       IN IF ParserRejects(cmd.argv, always_import)
          THEN Finish([cmd EXCEPT !.ids = <<>>], Nothing, 2)
          ELSE \E r \in {import_each(Now, ids, TRUE, <<>>)} : Finish(cmd, r, 0)

\* main(["up", "--all"] + ["--update"])
MainUpAll(update, always_import, failing) ==
    /\ cmdPc = "idle"
    /\ LET cmd == [name |-> "main",
                   argv |-> <<"up", "--all">> \o Flag(update, "--update"),
                   ALWAYS_IMPORT |-> always_import, ids |-> <<>>]
       IN IF ParserRejects(cmd.argv, always_import) THEN Finish(cmd, Nothing, 2)
          ELSE \E r \in {up_all_honeypots(Now, update, always_import, failing)} :
                  Finish([cmd EXCEPT !.ids = r.ids], r, IF r.raised THEN 1 ELSE 0)

\* main(["down", "--all"])
MainDownAll(failing) ==
    /\ cmdPc = "idle"
    /\ \E ids \in {list_imported_honeypot_ids(Now)} :
       \E r \in {down_each(Now, ids, failing, <<>>)} :
          Finish([name |-> "main", argv |-> <<"down", "--all">>, ids |-> ids], r,
                 IF r.raised THEN 1 ELSE 0)

\* main(["clean", "--all"] + ["--data"]); reply: the answer to the
\* data-removal prompt
MainCleanAll(data, reply, failing) ==
    /\ cmdPc = "idle"
    /\ \E r \in {clean_all_honeypots(Now, data, reply, failing)} :
          Finish([name |-> "main", argv |-> <<"clean", "--all">> \o Flag(data, "--data"),
                  ids |-> list_imported_honeypot_ids(Now), data |-> data,
                  reply |-> reply], r, 0)

InitCmd ==
    /\ manifests \in [Range(HoneypotIds) -> UNION {CmdManifests(t) : t \in Range(HoneypotIds)}]
    /\ \A t \in Range(HoneypotIds) : manifests[t] \in CmdManifests(t)
    /\ templates \in SUBSET Range(HoneypotIds)
    /\ \A t \in Range(HoneypotIds) \ templates :
          manifests[t] = CmdManifest(t, TRUE, GoodPorts, GoodVolumes(t), GoodEnv)
    /\ work \in [Range(HoneypotIds) -> {NoDir, ImportedOld}]
    /\ running \in SUBSET {t \in Range(HoneypotIds) : work[t].exists}
    /\ hostDirs = {}
    /\ fs \in CmdFs
    /\ cmdPc = "idle" /\ cmdIn = NoCommand /\ cmdLog = <<>> /\ cmdExit = 0
    /\ workBefore = work /\ hostBefore = hostDirs
    /\ fsBefore = fs /\ rmPc = "idle" /\ rmId = <<"">> /\ rmResult = FALSE
    /\ RunIdle /\ RwIdle /\ EnvIdle /\ CpIdle /\ PrIdle

NextCmd ==
    \/ \E t \in Range(HoneypotIds), force \in BOOLEAN,
          rewrite_raises \in {"no", "load", "dump"} :
          CallImportHoneypot(t, force, rewrite_raises)
    \/ \E t \in Range(HoneypotIds), enabled \in BOOLEAN : CallSetHoneypotEnabled(t, enabled)
    \/ \E t \in Range(HoneypotIds), fails \in BOOLEAN :
          CallDownHoneypot(t, IF fails THEN {t} ELSE {})
    \/ \E update \in BOOLEAN, always \in BOOLEAN,
          failing \in SUBSET Range(HoneypotIds) : CallUpAllHoneypots(update, always, failing)
    \/ \E data \in BOOLEAN, reply \in BOOLEAN,
          failing \in SUBSET Range(HoneypotIds) : CallCleanAllHoneypots(data, reply, failing)
    \/ \E t \in Range(HoneypotIds), data \in BOOLEAN, reply \in BOOLEAN,
          failing \in SUBSET Range(HoneypotIds) :
          CallCleanSingleHoneypot(t, data, reply, failing)
    \/ \E t \in Range(HoneypotIds), force \in BOOLEAN, update \in BOOLEAN,
          always \in BOOLEAN, confirm \in BOOLEAN, fails \in BOOLEAN :
          CallUpSingleHoneypot(t, force, update, always, confirm,
                               IF fails THEN {t} ELSE {})
    \/ \E argv \in SingleArgvs, always \in BOOLEAN : MainSingle(argv, always)
    \/ \E force \in BOOLEAN, always \in BOOLEAN : MainImportAll(force, always)
    \/ \E always \in BOOLEAN : MainUpdate(always)
    \/ \E update \in BOOLEAN, always \in BOOLEAN,
          failing \in SUBSET Range(HoneypotIds) : MainUpAll(update, always, failing)
    \/ \E failing \in SUBSET Range(HoneypotIds) : MainDownAll(failing)
    \/ \E data \in BOOLEAN, reply \in BOOLEAN,
          failing \in SUBSET Range(HoneypotIds) : MainCleanAll(data, reply, failing)

SpecCmd == InitCmd /\ [][NextCmd]_vars

\* a call of the operation op on the honeypot t is in the log
Attempted(op, t) == \E i \in 1..Len(cmdLog) : cmdLog[i][1] = op /\ cmdLog[i][2] = t

\* the batch operation of the call: of main with --all or update, of
\* up_all_honeypots and of clean_all_honeypots
Batch ==
    IF cmdIn.name = "main"
    THEN (IF cmdIn.argv = <<"update">> THEN "update"
          ELSE IF Len(cmdIn.argv) >= 2 /\ cmdIn.argv[2] = "--all" THEN cmdIn.argv[1]
          ELSE "none")
    ELSE IF cmdIn.name = "up_all_honeypots" THEN "up"
    ELSE IF cmdIn.name = "clean_all_honeypots" THEN "clean"
    ELSE "none"

\* the call is a clean that reaches its honeypots
CleanCall == cmdIn.name = "clean_single_honeypot" \/ Batch = "clean"

\* the manifest of t has a malformed ports, volumes or env field
Malformed(t) ==
    /\ manifests[t].ytag = "manifest"
    /\ \/ ~parse_ports(manifests[t].yval).ok
       \/ ~parse_volumes(manifests[t].yval).ok
       \/ ~parse_env(manifests[t].yval).ok

\* C3: an import of a honeypot whose manifest has a malformed ports,
\* volumes or env field fails, and leaves every working directory and every
\* volume directory as it was before the command.
C3_MalformedImportTouchesNothing ==
    (cmdPc = "done" /\ cmdIn.name = "import_honeypot" /\ Malformed(cmdIn.id)) =>
        /\ cmdExit = 1
        /\ work = workBefore
        /\ hostDirs = hostBefore

\* C4: a batch command that has ended has called its operation on every
\* honeypot of its list, whatever the calls on the earlier ones did.
C4_BatchAttemptsEveryService ==
    (cmdPc = "done" /\ Batch # "none") =>
        \A i \in 1..Len(cmdIn.ids) :
            CASE Batch \in {"import", "update"} ->
                     Attempted("import", cmdIn.ids[i])
              [] Batch = "up" ->
                     /\ Attempted("up", cmdIn.ids[i])
                     /\ cmdIn.ALWAYS_IMPORT => Attempted("import", cmdIn.ids[i])
              [] OTHER -> Attempted("down", cmdIn.ids[i])

\* the file of that name in the working directory of t
FileOf(t, fname) == {f \in work[t].files : f[1] = fname}

\* C13: when rewrite_compose_with_env raised during an import, the import
\* returned normally (exit code 0), and the working directory holds the
\* copied Dockerfile, a docker-compose.yml and the generated .env.
C13_RewriteFailureIsNotFatal ==
    (cmdPc = "done" /\ cmdIn.name = "import_honeypot" /\ Attempted("rewrite", cmdIn.id)) =>
        /\ cmdExit = 0
        /\ Attempted("import", cmdIn.id) /\ cmdLog[1][3] = "ok"
        /\ work[cmdIn.id].exists
        /\ FileOf(cmdIn.id, "Dockerfile") = {<<"Dockerfile", Opaque("template")>>}
        /\ FileOf(cmdIn.id, "docker-compose.yml") # {}
        /\ \E f \in FileOf(cmdIn.id, ".env") : f[2].ytag = "envfile"

\* an import over an existing directory, with --force, whose rewrite raised
\* while reading docker-compose.yml: the file is the template's
C13_Witness ==
    /\ cmdPc = "done" /\ cmdIn.name = "import_honeypot" /\ Attempted("rewrite", cmdIn.id)
    /\ cmdIn.rewrite_raises = "load"
    /\ workBefore[cmdIn.id].exists
    /\ FileOf(cmdIn.id, "docker-compose.yml") = {<<"docker-compose.yml", TemplateCompose(cmdIn.id)>>}
    /\ cmdExit = 0

\* C25: in up --all with ALWAYS_IMPORT, compose up is not launched for a
\* honeypot whose auto-import raised.
C25_FailedImportIsNotStarted ==
    (cmdPc = "done" /\ Batch = "up" /\ cmdIn.ALWAYS_IMPORT) =>
        \A t \in Range(HoneypotIds) :
            (\E i \in 1..Len(cmdLog) : cmdLog[i] = <<"import", t, "raised">>) =>
                ~Attempted("compose", t)

\* the data directory of t and all below it is as it was before the command
DataUntouched(t) ==
    \A q \in DOMAIN fs : IsPrefix(<<"d", t>>, q) => fs[q] = fsBefore[q]

\* C26 as stated: in a clean of one honeypot or of all, every call of
\* remove_honeypot_data or remove_honeypot for a honeypot comes after a
\* down_honeypot for that honeypot that returned without error.
C26_EveryRemovalFollowsAStop ==
    (cmdPc = "done" /\ CleanCall) =>
        \A i \in 1..Len(cmdLog) :
            cmdLog[i][1] \in {"data", "remove"} =>
                \E j \in 1..(i - 1) : cmdLog[j] = <<"down", cmdLog[i][2], "ok">>

\* C26, amended: in a clean of one honeypot or of all, for each imported
\* honeypot the call goes through: the data removal and the removal of the working
\* directory are called only after down_honeypot returned without error,
\* the data removal before the removal of the working directory; and when
\* down_honeypot raised, neither the data directory nor the working
\* directory of that honeypot changed.
C26_CleanStopsBeforeItRemoves ==
    (cmdPc = "done" /\ CleanCall) =>
        \A t \in Range(cmdIn.ids) :
            /\ \A i \in 1..Len(cmdLog) :
                  (cmdLog[i][1] \in {"data", "remove"} /\ cmdLog[i][2] = t) =>
                      \E j \in 1..(i - 1) : cmdLog[j] = <<"down", t, "ok">>
            /\ \A i \in 1..Len(cmdLog), j \in 1..Len(cmdLog) :
                  (/\ cmdLog[i][1] = "data" /\ cmdLog[i][2] = t
                   /\ cmdLog[j][1] = "remove" /\ cmdLog[j][2] = t) => i < j
            /\ (\E i \in 1..Len(cmdLog) : cmdLog[i] = <<"down", t, "raised">>) =>
                  /\ work[t] = workBefore[t]
                  /\ DataUntouched(t)

\* clean --all --data, confirmed: stopping a raised and a has data; b was
\* stopped, its data removed and then its working directory
C26_Witness ==
    /\ cmdPc = "done" /\ cmdIn.name = "clean_all_honeypots"
    /\ cmdLog = <<<<"down", "a", "raised">>, <<"down", "b", "ok">>,
                  <<"data", "b", "ok">>, <<"remove", "b", "ok">>>>
    /\ Kind(fsBefore, <<"d", "a">>) = "dir"
    /\ Kind(fs, <<"d", "b">>) = "none"
    /\ ~work["b"].exists

\* C27: in clean_single_honeypot and in a clean of all honeypots,
\* remove_honeypot_data is called only when
\* --data was given and the prompt was confirmed; otherwise no data
\* directory changes, every honeypot of the list is stopped, and the
\* working directory of each one stopped without error is removed.
C27_DataRemovalNeedsConfirmation ==
    (cmdPc = "done" /\ CleanCall) =>
        /\ (\E i \in 1..Len(cmdLog) : cmdLog[i][1] = "data") =>
              (cmdIn.data /\ cmdIn.reply)
        /\ ~(cmdIn.data /\ cmdIn.reply) =>
              /\ fs = fsBefore
              /\ \A t \in Range(cmdIn.ids) :
                    /\ Attempted("down", t)
                    /\ (\E i \in 1..Len(cmdLog) : cmdLog[i] = <<"down", t, "ok">>) =>
                          (Attempted("remove", t) /\ ~work[t].exists)

\* clean a --data, declined: a was imported and has data; it is stopped and
\* its working directory removed, its data is still there
C27_Witness ==
    /\ cmdPc = "done" /\ cmdIn.name = "clean_single_honeypot"
    /\ cmdIn.data /\ ~cmdIn.reply
    /\ cmdLog = <<<<"down", "a", "ok">>, <<"remove", "a", "ok">>>>
    /\ workBefore["a"].exists /\ ~work["a"].exists
    /\ Kind(fs, <<"d", "a">>) = "dir"

\* C28: without force, compose up is not launched for a honeypot that is
\* not enabled, and up_single_honeypot on such a honeypot ends with an error
\* before any import: the working directories are as before the command.
C28_DisabledIsNeverStarted ==
    /\ (cmdPc = "done" /\ Batch = "up") =>
          \A t \in Range(HoneypotIds) :
              ~is_honeypot_enabled(t) => ~Attempted("compose", t)
    /\ (cmdPc = "done" /\ cmdIn.name = "up_single_honeypot" /\ ~cmdIn.force
           /\ ~is_honeypot_enabled(cmdIn.id)) =>
          /\ ~Attempted("compose", cmdIn.id)
          /\ ~Attempted("import", cmdIn.id)
          /\ cmdExit = 1
          /\ work = workBefore

\* the command called import_honeypot on t once, and the call raised
ImportRaised(t) ==
    /\ \E i \in 1..Len(cmdLog) : cmdLog[i] = <<"import", t, "raised">>
    /\ Cardinality({i \in 1..Len(cmdLog) : cmdLog[i][1] = "import" /\ cmdLog[i][2] = t}) = 1

\* C29: an import_honeypot that raised for a honeypot without manifest or
\* without template left its working directory as it was, with and without
\* force; and an import or import --all without --force that raised on an
\* existing working directory left it as it was.
C29_FailedLookupTouchesNothing ==
    cmdPc = "done" =>
        \A t \in Range(HoneypotIds) :
            /\ (ImportRaised(t) /\ (manifests[t].ytag # "manifest" \/ t \notin templates)) =>
                  work[t] = workBefore[t]
            /\ (/\ (cmdIn.name = "import_honeypot" \/ Batch = "import")
                /\ ~cmdIn.force
                /\ workBefore[t].exists
                /\ Attempted("import", t)) =>
                  (ImportRaised(t) /\ work[t] = workBefore[t])
            /\ (/\ cmdIn.name = "import_honeypot" /\ cmdIn.id = t
                /\ (manifests[t].ytag # "manifest" \/ t \notin templates)) =>
                  (ImportRaised(t) /\ cmdExit = 1 /\ hostDirs = hostBefore)

\* import a --force over the directory of an earlier import, with no
\* template for a: the import raised and the directory is as it was
C29_Witness ==
    /\ cmdPc = "done" /\ cmdIn.name = "import_honeypot" /\ cmdIn.id = "a" /\ cmdIn.force
    /\ "a" \notin templates
    /\ ImportRaised("a")
    /\ workBefore["a"] = ImportedOld
    /\ work["a"] = ImportedOld

\* the names VAR of the references ${VAR} in a string
StrRefs(chars) ==
    {SubSeq(chars, p[1] + 2, p[2] - 1) :
        p \in {q \in (1..Len(chars)) \X (1..Len(chars)) :
                  /\ chars[q[1]] = "$"
                  /\ q[1] + 1 < q[2]
                  /\ chars[q[1] + 1] = "{"
                  /\ chars[q[2]] = "}"
                  /\ \A k \in (q[1] + 2)..(q[2] - 1) : chars[k] # "}"}}

\* the references in the strings of a list or in the values of a mapping
ValueRefs(x) ==
    CASE x.ytag = "list" ->
             UNION {StrRefs(x.yval[i].yval) :
                       i \in {j \in DOMAIN x.yval : x.yval[j].ytag = "str"}}
      [] x.ytag = "dict" ->
             UNION {StrRefs(x.yval[i][2].yval) :
                       i \in {j \in DOMAIN x.yval : x.yval[j][2].ytag = "str"}}
      [] OTHER -> {}

\* the references in ports, volumes and environment of every service
ComposeRefs(doc) ==
    UNION {ValueRefs(svc.yval.ports) \cup ValueRefs(svc.yval.volumes)
               \cup ValueRefs(svc.yval.environment) :
           svc \in {doc.yval.services.yval[i][2] : i \in DOMAIN doc.yval.services.yval}}

\* the names VAR of the lines VAR=... of a .env
EnvDefined(lines) ==
    {SplitFirst(lines[i], "=")[1] :
        i \in {j \in DOMAIN lines : HasChar(lines[j], "=") /\ Head(lines[j]) # "#"}}

\* the honeypots imported by the command whose docker-compose.yml was
\* rewritten
Rewritten ==
    {t \in Range(HoneypotIds) :
        /\ \E i \in 1..Len(cmdLog) : cmdLog[i] = <<"import", t, "ok">>
        /\ ~Attempted("rewrite", t)
        /\ work[t].exists}

\* C24 as stated: after an import that returned normally, every variable
\* referenced as ${VAR} in the ports, volumes and environment of the
\* rewritten docker-compose.yml is defined by a line VAR=... of the .env of
\* the same working directory.
C24_EveryVariableIsDefined ==
    cmdPc = "done" =>
        \A t \in Rewritten :
            \A c \in FileOf(t, "docker-compose.yml") :
                /\ c[2].ytag = "compose"
                /\ \E e \in FileOf(t, ".env") :
                      /\ e[2].ytag = "envfile"
                      /\ ComposeRefs(c[2]) \subseteq EnvDefined(e[2].yval)

\* C24, amended: after an import that returned normally, every variable
\* referenced as ${VAR} in the ports, volumes and environment of the
\* rewritten docker-compose.yml that the docker-compose.yml of the template
\* did not refer to is defined by a line VAR=... of the .env of the same
\* working directory.
C24_ComposeVariablesAreDefined ==
    cmdPc = "done" =>
        \A t \in Rewritten :
            \A c \in FileOf(t, "docker-compose.yml") :
                /\ c[2].ytag = "compose"
                /\ \E e \in FileOf(t, ".env") :
                      /\ e[2].ytag = "envfile"
                      /\ (ComposeRefs(c[2]) \ ComposeRefs(TemplateCompose(t)))
                            \subseteq EnvDefined(e[2].yval)

\* an import of the manifest with two ports, no volumes and the env keys
\* a-b and KEY over the template that refers to DATA and TZ: the rewritten
\* file refers to A_PORT2_DST and to A_A_B, which .env defines, and still
\* to DATA and TZ, which it does not
C24_Witness ==
    /\ cmdPc = "done"
    /\ "a" \in Rewritten
    /\ \E c \in FileOf("a", "docker-compose.yml") :
          /\ {<<"A", "_", "P", "O", "R", "T", "2", "_", "D", "S", "T">>,
               <<"A", "_", "A", "_", "B">>, <<"D", "A", "T", "A">>, <<"T", "Z">>}
                 \subseteq ComposeRefs(c[2])
          /\ \E e \in FileOf("a", ".env") :
                /\ {<<"A", "_", "P", "O", "R", "T", "2", "_", "D", "S", "T">>,
                     <<"A", "_", "A", "_", "B">>} \subseteq EnvDefined(e[2].yval)
                /\ <<"T", "Z">> \notin EnvDefined(e[2].yval)


(***************************************************************************)
(* SpecEnv: generate_env_file called, and called again, on the .env of one *)
(* working directory.  The file is [exists, text], text being the          *)
(* characters written.                                                     *)
(***************************************************************************)
MaxEnvRuns == 2

NoEnvFile == [exists |-> FALSE, text |-> <<>>]

RECURSIVE JoinLines(_)
\* "\n".join(lines) + "\n"
JoinLines(lines) ==
    IF lines = <<>> THEN <<"\n">>
    ELSE IF Len(lines) = 1 THEN Head(lines) \o <<"\n">>
    ELSE Head(lines) \o <<"\n">> \o JoinLines(Tail(lines))

\* a write that appends to what the file holds
write_text_append(old, content) == [exists |-> TRUE, text |-> old.text \o content]

\* env_path.write_text(content, encoding="utf-8")
write_text(old, content) == [exists |-> TRUE, text |-> content]

PortEntry(host, container) ==
    [ytag |-> "entry",
     yval |-> [host |-> host, src |-> Absent, source |-> Absent,
               container |-> container, dst |-> Absent, destination |-> Absent]]

\* the manifests: ports, volumes and env absent, well-formed or malformed;
\* the host paths of the volumes are relative, absolute, with "..", with a
\* trailing slash and through the symbolic link /p/lnk
EnvManifests ==
    {[name |-> name, enabled |-> BoolV(TRUE), ports |-> ports, volumes |-> volumes,
      env |-> env, service |-> Absent, services |-> Absent, image |-> Absent] :
        name \in {Absent, StrV(<<"M", "y", " ", "P", "o", "t">>)},
        ports \in {Absent,
                   ListV(<<StrV(<<"2", "2", "2", "2", ":", "2", "2">>)>>),
                   ListV(<<PortEntry(IntV(80), IntV(8080)), StrV(<<" ", "5", "3", ":", "5", "3">>)>>),
                   ListV(<<StrV(<<"8", "0">>)>>)},
        volumes \in {Absent,
                     ListV(<<StrV(<<".", "/", "d", ":", "/", "d">>),
                             StrV(<<"/", "x", ":", "/", "y", ":", "r", "o">>)>>),
                     ListV(<<StrV(<<".", ".", "/", "x", "/", ":", "/", "d">>),
                             StrV(<<"l", "n", "k", "/", "a", "/", ".", ".", "/", "b", ":", "/", "y">>)>>),
                     ListV(<<StrV(<<"n", "o", "v", "o", "l">>)>>)},
        env \in {Absent,
                 DictV(<< <<s_KEY, StrV(<<"v">>)>> >>),
                 DictV(<< <<s_a_b, IntV(1)>>, <<s_KEY, Null>> >>),
                 DictV(<< <<s_KEY, StrV(<<"a", "\n", "b">>)>> >>),
                 ListV(<<StrV(<<"K", "E", "Y", "=", "v">>)>>)}}

InitEnv ==
    /\ envFile \in {NoEnvFile, [exists |-> TRUE, text |-> <<"O", "L", "D", "=", "1", "\n">>]}
    /\ envPrev = envFile
    /\ envCfg \in EnvManifests
    /\ envName = resolved_name(envCfg, <<"c", "o", "w", "r", "i", "e">>)
    /\ envCount = 0
    /\ envRaised = FALSE
    /\ FsIdle /\ RunIdle /\ RwIdle /\ CmdIdle /\ CpIdle /\ PrIdle

\* generate_env_file(dest_dir, honeypot_name, config)
GenerateEnv ==
    /\ envCount < MaxEnvRuns
    /\ \E r \in {generate_env_file(envName, envCfg)} :
          /\ envRaised' = ~r.ok
          /\ envFile' = IF r.ok THEN write_text(envFile, JoinLines(r.val)) ELSE envFile
    /\ envPrev' = envFile
    /\ envCount' = envCount + 1
    /\ UNCHANGED <<envCfg, envName>>
    /\ UNCHANGED notEnvVars

NextEnv == GenerateEnv

SpecEnv == InitEnv /\ [][NextEnv]_vars

\* the manifest is valid: ports, volumes and env are well-formed
ValidManifest ==
    parse_ports(envCfg).ok /\ parse_volumes(envCfg).ok /\ parse_env(envCfg).ok

\* C14: for a valid manifest, the second of two calls of generate_env_file
\* with the same name and manifest leaves in .env exactly the text the
\* first call wrote.
C14_EnvFileIdempotent ==
    (envCount = 2 /\ ValidManifest) =>
        /\ ~envRaised
        /\ envFile.exists /\ envPrev.exists
        /\ envFile.text = envPrev.text

\* two calls with a manifest of two ports, two volumes and two env entries
C14_Witness ==
    /\ envCount = 2 /\ ValidManifest
    /\ ParsedCount(parse_ports(envCfg)) = 2
    /\ ParsedCount(parse_volumes(envCfg)) = 2
    /\ ParsedCount(parse_env(envCfg)) = 2
    /\ envFile.text = envPrev.text
    /\ envFile.text # <<>>

\* the lines of a text that ends with "\n", each without its "\n"
FileLines(text) ==
    LET nl == {i \in DOMAIN text : text[i] = "\n"}
        pos(k) == CHOOSE i \in nl : Cardinality({j \in nl : j <= i}) = k
    IN [k \in 1..Cardinality(nl) |->
           SubSeq(text, IF k = 1 THEN 1 ELSE pos(k - 1) + 1, pos(k) - 1)]

\* PREFIX_<role><i>_<end>=<value>
PairLine(role, i, end, value) ==
    to_var_prefix(envName) \o <<"_">> \o role \o Digits(i) \o <<"_">> \o end
    \o <<"=">> \o value

\* C15: after generate_env_file on a valid manifest, the lines of .env are
\* the comment line, then for the i-th port PREFIX_PORTi_SRC=<host> and
\* PREFIX_PORTi_DST=<container>, then for the i-th volume
\* PREFIX_VOLi_SRC=<normalized host path> and PREFIX_VOLi_DST=<container
\* path>, then one line PREFIX_<SANITIZED_KEY>=<value> per env entry, and
\* no other line.
C15_EnvFileLines ==
    (envCount >= 1 /\ ValidManifest) =>
        LET L == FileLines(envFile.text)
            pp == parse_ports(envCfg).val
            vp == parse_volumes(envCfg).val
            ep == parse_env(envCfg).val
            np == Len(pp)
            nv == Len(vp)
        IN /\ envFile.exists
           /\ Len(L) = 1 + 2 * np + 2 * nv + Len(ep)
           /\ L[1] = <<"#", " ", "A", "u", "t", "o", "-", "g", "e", "n", "e", "r",
                       "a", "t", "e", "d", " ", "b", "y", " ", "m", "a", "n", "a",
                       "g", "e", ".", "p", "y", " ", "f", "o", "r", " ">> \o envName
           /\ \A i \in 1..np :
                 /\ L[2 * i] = PairLine(<<"P", "O", "R", "T">>, i, <<"S", "R", "C">>, pp[i][1])
                 /\ L[2 * i + 1] = PairLine(<<"P", "O", "R", "T">>, i, <<"D", "S", "T">>, pp[i][2])
           /\ \A i \in 1..nv :
                 /\ L[2 * np + 2 * i] =
                       PairLine(<<"V", "O", "L">>, i, <<"S", "R", "C">>,
                                normalize_host_path(vp[i][1]))
                 /\ L[2 * np + 2 * i + 1] =
                       PairLine(<<"V", "O", "L">>, i, <<"D", "S", "T">>, vp[i][2])
           /\ \A i \in 1..Len(ep) :
                 L[1 + 2 * np + 2 * nv + i] =
                     to_var_prefix(envName) \o <<"_">> \o SanitizeKey(ep[i][1])
                     \o <<"=">> \o ep[i][2]


(***************************************************************************)
(* SpecCompose: run_compose_action(honeypot_dir, action, extra_args).      *)
(*                                                                         *)
(* A program of the host is "missing" (launching it raises                 *)
(* FileNotFoundError), "ok" (exit code 0) or "fails" (exit code not 0).    *)
(* run_with_ephemeral_logs is taken by its result: success is False when   *)
(* the launch raises or the exit code is not 0.                            *)
(***************************************************************************)
Programs == {"missing", "ok", "fails"}

ComposeInputs ==
    [action : {"up", "down"},
     extra_args : {<<>>, <<"-v">>, <<"--rmi", "local">>},
     USE_EPHEMERAL_LOGGING : BOOLEAN,
     has_compose_file : BOOLEAN,
     docker : Programs,
     docker_compose : Programs]

\* cmd = [program..., action]; if action == "up": append "-d"; extend extra_args
compose_cmd(program, action, extra_args) ==
    program \o <<action>> \o (IF action = "up" THEN <<"-d">> ELSE <<>>) \o extra_args

InitCompose ==
    /\ cpPc = "start"
    /\ cpIn \in ComposeInputs
    /\ cpCalls = <<>>
    /\ cpOutcome = "none"
    /\ FsIdle /\ RunIdle /\ RwIdle /\ CmdIdle /\ EnvIdle /\ PrIdle

\* if not (honeypot_dir / "docker-compose.yml").exists(): raise
ComposeCheckFile ==
    /\ cpPc = "start"
    /\ IF cpIn.has_compose_file
       THEN cpPc' = "primary" /\ UNCHANGED cpOutcome
       ELSE cpPc' = "done" /\ cpOutcome' = "FileNotFoundError"
    /\ UNCHANGED <<cpIn, cpCalls>>
    /\ UNCHANGED notCpVars

\* USE_EPHEMERAL_LOGGING: run_docker_compose_action_with_args, and
\* CalledProcessError when it returns success = False
ComposeEphemeral ==
    /\ cpPc = "primary"
    /\ cpIn.USE_EPHEMERAL_LOGGING
    /\ cpCalls' = Append(cpCalls, compose_cmd(<<"docker", "compose">>, cpIn.action,
                                              cpIn.extra_args))
    /\ cpOutcome' = IF cpIn.docker = "ok" THEN "returned" ELSE "CalledProcessError"
    /\ cpPc' = "done"
    /\ UNCHANGED cpIn
    /\ UNCHANGED notCpVars

\* subprocess.run(cmd_dc, check=True, ...) and its except FileNotFoundError
ComposePlain ==
    /\ cpPc = "primary"
    /\ ~cpIn.USE_EPHEMERAL_LOGGING
    /\ cpCalls' = Append(cpCalls, compose_cmd(<<"docker", "compose">>, cpIn.action,
                                              cpIn.extra_args))
    /\ CASE cpIn.docker = "ok" -> cpPc' = "done" /\ cpOutcome' = "returned"
         [] cpIn.docker = "fails" -> cpPc' = "done" /\ cpOutcome' = "CalledProcessError"
         [] OTHER -> cpPc' = "legacy" /\ UNCHANGED cpOutcome
    /\ UNCHANGED cpIn
    /\ UNCHANGED notCpVars

\* subprocess.run(cmd_legacy, check=True, ...) in the except branch
ComposeLegacy ==
    /\ cpPc = "legacy"
    /\ cpCalls' = Append(cpCalls, compose_cmd(<<"docker-compose">>, cpIn.action,
                                              cpIn.extra_args))
    /\ cpOutcome' = CASE cpIn.docker_compose = "ok" -> "returned"
                      [] cpIn.docker_compose = "fails" -> "CalledProcessError"
                      [] OTHER -> "FileNotFoundError"
    /\ cpPc' = "done"
    /\ UNCHANGED cpIn
    /\ UNCHANGED notCpVars

NextCompose ==
    \/ ComposeCheckFile
    \/ ComposeEphemeral
    \/ ComposePlain
    \/ ComposeLegacy

SpecCompose == InitCompose /\ [][NextCompose]_vars

\* C16: when docker-compose.yml exists and the docker program cannot be
\* launched, run_compose_action has, once it is done, tried the same action
\* with the legacy docker-compose command after the primary one, whether
\* ephemeral logging is enabled or not.
C16_LegacyFallbackInBothModes ==
    (cpPc = "done" /\ cpIn.has_compose_file /\ cpIn.docker = "missing") =>
        cpCalls = <<compose_cmd(<<"docker", "compose">>, cpIn.action, cpIn.extra_args),
                    compose_cmd(<<"docker-compose">>, cpIn.action, cpIn.extra_args)>>

(***************************************************************************)
(* FieldParser and to_var_prefix on their own: parse_ports, parse_volumes  *)
(* and parse_env of core/config.py and the two to_var_prefix of            *)
(* helpers/utils.py and core/utils.py, each called once on a manifest or a *)
(* name.  What a call raises is recorded with the entry its message shows. *)
(***************************************************************************)
\* the characters of a string literal
Chars(str) == [i \in 1..Len(str) |-> SubSeq(str, i, i)]

\* core/utils.py: re.sub(r'[^a-zA-Z0-9]', '_', name).upper(), and 'TOOL_'
\* in front of a prefix that does not start with a letter
core_to_var_prefix(name) ==
    LET prefix == Upper([i \in 1..Len(name) |->
                            IF name[i] \in Range(LowerCase) \cup Range(UpperCase)
                                           \cup Range(DigitChars)
                            THEN name[i] ELSE "_"])
    IN IF prefix # <<>> /\ Head(prefix) \notin Range(UpperCase)
       THEN Chars("TOOL_") \o prefix
       ELSE prefix

NoError == [type |-> "none", entry |-> Null]

RECURSIVE unrecognized_port(_)
\* raise ValueError(f"Unrecognized port format: {entry!r}"): the entry shown
unrecognized_port(entries) ==
    IF port_entry(Head(entries)).ok THEN unrecognized_port(Tail(entries))
    ELSE Head(entries)

RECURSIVE unrecognized_volume(_)
\* raise ValueError(f"Unrecognized volume format: {entry!r}"): the entry shown
unrecognized_volume(entries) ==
    IF volume_entry(Head(entries)).ok THEN unrecognized_volume(Tail(entries))
    ELSE Head(entries)

\* what parse_ports(config) raises
parse_ports_error(config) ==
    LET it == Iterate(Or(Get(config.ports), ListV(<<>>)))
    IN IF parse_ports(config).ok THEN NoError
       ELSE IF ~it.ok THEN [type |-> "TypeError", entry |-> Null]
       ELSE [type |-> "ValueError", entry |-> unrecognized_port(it.items)]

\* what parse_volumes(config) raises
parse_volumes_error(config) ==
    LET it == Iterate(Or(Get(config.volumes), ListV(<<>>)))
    IN IF parse_volumes(config).ok THEN NoError
       ELSE IF ~it.ok THEN [type |-> "TypeError", entry |-> Null]
       ELSE [type |-> "ValueError", entry |-> unrecognized_volume(it.items)]

\* a port or volume entry written as a mapping with the given keys
EntryOf(host, src, source, container, dst, destination) ==
    [ytag |-> "entry",
     yval |-> [host |-> host, src |-> src, source |-> source,
               container |-> container, dst |-> dst, destination |-> destination]]

\* the entries of ports and volumes: the documented shapes, records with a
\* side missing, null, zero or empty, strings with and without a colon, a
\* bare number and a null
ParseEntries ==
    {EntryOf(IntV(8080), Absent, Absent, IntV(80), Absent, Absent),
     EntryOf(Absent, StrV(Chars("./d")), Absent, Absent, StrV(Chars("/d")), Absent),
     EntryOf(Absent, Absent, IntV(53), Absent, Absent, IntV(53)),
     EntryOf(IntV(8080), Absent, Absent, Absent, IntV(80), Absent),
     EntryOf(IntV(8080), Absent, Absent, Absent, Absent, Absent),
     EntryOf(IntV(8080), Absent, Absent, Null, Absent, Absent),
     EntryOf(IntV(0), Absent, Absent, IntV(80), Absent, Absent),
     EntryOf(StrV(<<>>), Absent, Absent, StrV(Chars("/d")), Absent, Absent),
     EntryOf(Absent, Absent, IntV(0), Absent, Absent, IntV(0)),
     EntryOf(IntV(0), IntV(5), Absent, IntV(1), Absent, Absent),
     StrV(Chars("2222:22")),
     StrV(Chars(" /x : /y :ro")),
     StrV(Chars(":")),
     StrV(Chars("22")),
     IntV(80),
     Null}

\* the values of the env key
ParseEnvs ==
    {Absent, Null,
     DictV(<<>>),
     DictV(<< <<s_KEY, StrV(<<"v">>)>> >>),
     DictV(<< <<s_a_b, IntV(1)>>, <<s_KEY, Null>>, <<s_OTHER, BoolV(TRUE)>> >>),
     ListV(<<>>),
     ListV(<<StrV(Chars("KEY=v"))>>),
     StrV(<<>>),
     StrV(Chars("KEY=v")),
     IntV(0), IntV(5),
     BoolV(FALSE), BoolV(TRUE)}

ParseManifest(entries, env) ==
    [name |-> Absent, enabled |-> BoolV(TRUE), ports |-> entries, volumes |-> entries,
     env |-> env, service |-> Absent, services |-> Absent, image |-> Absent]

\* manifests whose ports and volumes hold the same list of at most two
\* entries, or no list at all, and manifests that differ in env only
ParseManifests ==
    {ParseManifest(ListV(<<e>>), Absent) : e \in ParseEntries}
    \cup {ParseManifest(ListV(<<e1, e2>>), Absent) : e1 \in ParseEntries, e2 \in ParseEntries}
    \cup {ParseManifest(x, Absent) : x \in {Absent, Null, ListV(<<>>), IntV(5), StrV(Chars("ab"))}}
    \cup {ParseManifest(Absent, env) : env \in ParseEnvs}

\* the names: plain, mixed case, with symbols and spaces inside and at the
\* ends, with runs of symbols, made of symbols only, empty
PrefixNames ==
    {Chars("cowrie"), Chars("My Pot"), Chars("a--b"), Chars(" web-1 "),
     Chars("-x"), Chars("x!"), Chars("9lives"), Chars("a.b_c"), Chars("---"),
     Chars(" "), <<>>}

InitParse ==
    /\ prPc = "idle"
    /\ prCfg \in ParseManifests
    /\ prName \in PrefixNames
    /\ prOut = <<>>
    /\ FsIdle /\ RunIdle /\ RwIdle /\ CmdIdle /\ EnvIdle /\ CpIdle

\* parse_ports(config)
ParsePorts ==
    /\ prPc = "idle"
    /\ prOut' = [fn |-> "parse_ports", ok |-> parse_ports(prCfg).ok,
                 val |-> parse_ports(prCfg).val, err |-> parse_ports_error(prCfg)]
    /\ prPc' = "done"
    /\ UNCHANGED <<prCfg, prName>>
    /\ UNCHANGED notPrVars

\* parse_volumes(config)
ParseVolumes ==
    /\ prPc = "idle"
    /\ prOut' = [fn |-> "parse_volumes", ok |-> parse_volumes(prCfg).ok,
                 val |-> parse_volumes(prCfg).val, err |-> parse_volumes_error(prCfg)]
    /\ prPc' = "done"
    /\ UNCHANGED <<prCfg, prName>>
    /\ UNCHANGED notPrVars

\* parse_env(config)
ParseEnv ==
    /\ prPc = "idle"
    /\ prOut' = [fn |-> "parse_env", ok |-> parse_env(prCfg).ok,
                 val |-> parse_env(prCfg).val,
                 err |-> IF parse_env(prCfg).ok THEN NoError
                         ELSE [type |-> "ValueError", entry |-> Null]]
    /\ prPc' = "done"
    /\ UNCHANGED <<prCfg, prName>>
    /\ UNCHANGED notPrVars

\* to_var_prefix(tool_name) of helpers/utils.py
ToVarPrefix ==
    /\ prPc = "idle"
    /\ prOut' = [fn |-> "to_var_prefix", ok |-> TRUE, val |-> to_var_prefix(prName),
                 err |-> NoError]
    /\ prPc' = "done"
    /\ UNCHANGED <<prCfg, prName>>
    /\ UNCHANGED notPrVars

\* to_var_prefix(name) of core/utils.py
CoreToVarPrefix ==
    /\ prPc = "idle"
    /\ prOut' = [fn |-> "core_to_var_prefix", ok |-> TRUE,
                 val |-> core_to_var_prefix(prName), err |-> NoError]
    /\ prPc' = "done"
    /\ UNCHANGED <<prCfg, prName>>
    /\ UNCHANGED notPrVars

NextParse ==
    \/ ParsePorts
    \/ ParseVolumes
    \/ ParseEnv
    \/ ToVarPrefix
    \/ CoreToVarPrefix

SpecParse == InitParse /\ [][NextParse]_vars

\* the entry carries a value other than null under one of the keys
HasSide(entry, keys) ==
    \E k \in keys : entry.yval[k].ytag \notin {"absent", "null"}

\* a record with a non-null value for both sides under the accepted key
\* names, or a string containing a colon
Recognized(entry) ==
    \/ /\ entry.ytag = "entry"
       /\ HasSide(entry, {"host", "src", "source"})
       /\ HasSide(entry, {"container", "dst", "destination"})
    \/ /\ entry.ytag = "str"
       /\ \E i \in 1..Len(entry.yval) : entry.yval[i] = ":"

\* the list of entries the parser was given
ParsedEntries == prCfg.ports.yval

\* C21: parse_ports and parse_volumes, given a list of entries, return a
\* pair for every entry if and only if every entry is a record with a
\* non-null value for both sides under the accepted key names or a string
\* containing a colon; otherwise they raise a ValueError that shows the
\* first entry that is not of these shapes, and return nothing.
C21_ParsersAcceptExactlyTheDocumentedShapes ==
    (/\ prPc = "done"
     /\ prOut.fn \in {"parse_ports", "parse_volumes"}
     /\ prCfg.ports.ytag = "list") =>
        /\ prOut.ok <=> \A i \in 1..Len(ParsedEntries) : Recognized(ParsedEntries[i])
        /\ prOut.ok => Len(prOut.val) = Len(ParsedEntries)
        /\ ~prOut.ok =>
              /\ prOut.val = <<>>
              /\ prOut.err.type = "ValueError"
              /\ \E i \in 1..Len(ParsedEntries) :
                    /\ prOut.err.entry = ParsedEntries[i]
                    /\ ~Recognized(ParsedEntries[i])
                    /\ \A j \in 1..(i - 1) : Recognized(ParsedEntries[j])

\* C22: parse_env raises for every manifest whose env is a list, a string,
\* a number or a boolean, empty or not; for a mapping it returns every key
\* with str(value), and the empty string for a null value.
C22_EnvMustBeAMapping ==
    (prPc = "done" /\ prOut.fn = "parse_env") =>
        /\ prCfg.env.ytag \in {"list", "str", "int", "bool"} =>
              (~prOut.ok /\ prOut.err.type = "ValueError")
        /\ prCfg.env.ytag = "dict" =>
              /\ prOut.ok
              /\ Keys(prOut.val) = Keys(prCfg.env.yval)
              /\ \A k \in Keys(prCfg.env.yval) :
                    Lookup(prOut.val, k) =
                        IF Lookup(prCfg.env.yval, k).ytag = "null" THEN <<>>
                        ELSE ToStr(Lookup(prCfg.env.yval, k))

\* the characters of the name that are letters or digits, in upper case,
\* each run of other characters between two of them counted once
RECURSIVE AlnumRuns(_)
AlnumRuns(name) ==
    IF name = <<>> THEN <<>>
    ELSE IF UpperChar(Head(name)) \in Range(UpperCase) \cup Range(DigitChars)
         THEN <<UpperChar(Head(name))>> \o AlnumRuns(Tail(name))
         ELSE IF Len(name) >= 2
                 /\ UpperChar(name[2]) \notin Range(UpperCase) \cup Range(DigitChars)
              THEN AlnumRuns(Tail(name))
              ELSE <<"_">> \o AlnumRuns(Tail(name))

\* a non-empty identifier over [A-Z0-9_] without leading or trailing
\* underscore in which every run of other characters of the name is one
\* underscore
IsPrefixOf(prefix, name) ==
    /\ prefix # <<>>
    /\ \A i \in 1..Len(prefix) :
          prefix[i] \in Range(UpperCase) \cup Range(DigitChars) \cup {"_"}
    /\ Head(prefix) # "_"
    /\ prefix[Len(prefix)] # "_"
    /\ \A i \in 1..(Len(prefix) - 1) : ~(prefix[i] = "_" /\ prefix[i + 1] = "_")
    /\ prefix = StripChars(AlnumRuns(name), {"_"})

\* C23: for every name, also one made of or containing symbols and spaces,
\* to_var_prefix returns a non-empty identifier over [A-Z0-9_] in which
\* every run of non-alphanumeric characters of the name is one underscore
\* and that has no leading or trailing underscore.
C23_PrefixIsAnIdentifier ==
    (prPc = "done" /\ prOut.fn \in {"to_var_prefix", "core_to_var_prefix"}) =>
        IsPrefixOf(prOut.val, prName)

====
